---- MODULE Spec2Model ----
(***************************************************************************)
(* Verification model of the audio loopback engine:                        *)
(*   - CircularBuffer<T>        (client/deps/test_tones/src/alsa_client.h)  *)
(*   - AlsaCaptureClient::Capture, AlsaPlaybackClient::PlayTones            *)
(*                              (client/deps/test_tones/src/alsa_client.cc) *)
(*   - LoopControl, MeasureFilter                                          *)
(*                              (client/deps/test_tones/src/audiofuntest.cc)*)
(*   - cap_loop / play_loop     (client/deps/audioloop/src/looptest.c)      *)
(* Threads are modelled at the granularity of their accesses to shared     *)
(* memory and of their blocking calls.                                     *)
(***************************************************************************)
EXTENDS Integers, Sequences, FiniteSets, TLC

\* ---------------------------------------------------------------- bounds
\* largest cell count of a CircularBuffer / buffer_count of looptest
MaxCount == 3
\* number of cells the writer harness of SpecCB writes
MaxWrites == 5
\* frames_wanted_ of LoopControl's MultiToneGenerator
\* (length_sec * sample_rate)
ToneFrames == 100

VARIABLES
  \* CircularBuffer<T> fields
  buffer_count_, write_ptr_, read_ptr_, mutexes, cells,
  \* writer thread: position, cell whose mutex it locked, sequence numbers
  wpc, wcell, writeSeq, writesDone,
  \* reader thread: position, log of the cells LockCellToRead returned
  rpc, readLog

cbVars == <<buffer_count_, write_ptr_, read_ptr_, mutexes, cells,
            wpc, wcell, writeSeq, writesDone, rpc, readLog>>

VARIABLES
  \* looptest.c globals
  buffer_count, write_index, read_index, write_available, read_available,
  terminate, buf_mutex,
  \* cap_loop / play_loop: position and the locals buf_cap / buf_play
  cap_pc, buf_cap, play_pc, buf_play

ltVars == <<buffer_count, write_index, read_index, write_available,
            read_available, terminate, buf_mutex,
            cap_pc, buf_cap, play_pc, buf_play>>

VARIABLES
  \* AlsaPlaybackClient::state_, AlsaCaptureClient::state_
  play_state, cap_state,
  \* playback thread: position in PlayTones; MultiToneGenerator fields
  ppc, frames_generated_, frequencies_,
  \* capture thread: the local `completed` of Capture
  completed,
  \* controller: LoopParam fields and the locals of LoopControl /
  \* MeasureFilter (its position is rpc)
  num_frames, target_carrier, frequencies, delay, accum_confidence, mf_c,
  \* the last indicator LoopControl printed ("O", "X" or "none")
  outcome,
  \* LockCellToWrite calls begun after cap_state became kTerminated, and
  \* GetFrames calls begun after play_state left kReady (counted up to 2)
  cap_after, play_after

ctlVars == <<num_frames, target_carrier, frequencies, delay,
             accum_confidence, mf_c, outcome>>
lcVars == <<play_state, cap_state, ppc, frames_generated_, frequencies_,
            completed, ctlVars, cap_after, play_after>>
\* the CircularBuffer state apart from the two thread positions
cbData == <<buffer_count_, write_ptr_, read_ptr_, mutexes, cells, wcell,
            writeSeq, writesDone, readLog>>

VARIABLES
  \* MultiToneGenerator fields other than frames_generated_ and frequencies_
  \* (tone_wave_ is the number of its SineWaveGenerators; volumes in tenths)
  frames_wanted_, fade_frames_, cur_vol_, start_vol_, inc_vol_, tone_wave_,
  param_mutex,
  \* the value the last GetFrames call returned
  written,
  \* controller thread inside a MultiToneGenerator call: position, arguments
  gpc, gcall

genVars == <<frames_wanted_, fade_frames_, cur_vol_, start_vol_, inc_vol_,
             tone_wave_, param_mutex, written, gpc, gcall>>

VARIABLES
  \* pcm_io: device->direction, the parameter count, the locals result and
  \* completed, and the position in the function
  direction, io_count, result, io_completed, io_pc

ioVars == <<direction, io_count, result, io_completed, io_pc>>

VARIABLES
  \* audiofuntest's main thread: position in main / LoopControl, the parsed
  \* configuration, the device call the running Init is at, last_error_ of
  \* the two clients, the number of threads created, the value LoopControl
  \* returned and the exit status of the process (-1 while they are not set)
  mpc, config, init_step, cap_last_error_, play_last_error_, threads,
  loop_ret, exit_status

mainVars == <<mpc, config, init_step, cap_last_error_, play_last_error_,
              threads, loop_ret, exit_status>>

VARIABLES
  \* sample codec: the build (is NDEBUG defined), the arguments of the call
  \* (format, channel count, frame count, the cell as a sequence of stored
  \* samples, the magnitude in halves), the function that was called and
  \* how it ended, the sample WriteSampleForFormat stored, the output cell
  \* of SampleCellToDoubleCell, PlaybackParam::frame_bytes_ and the local
  \* `frames` of GetFrames for one playback chunk
  ndebug, format_, num_channels_, cell_frames, sample_cell, magnitude,
  cpc, ret, out_sample, double_cell, frame_bytes_, chunk_frames

codecVars == <<ndebug, format_, num_channels_, cell_frames, sample_cell,
               magnitude, cpc, ret, out_sample, double_cell, frame_bytes_,
               chunk_frames>>

VARIABLES
  \* one GetFrames call followed frame by frame: the arguments format,
  \* channels, active_channels and buf_size, the locals frames_written and
  \* cur (as a byte offset into data), the samples stored in data with the
  \* offset of each, frames_generated_ when the loop was entered, and for
  \* each frame written its frames_generated_, fade multiplier and
  \* frame_magnitude
  gf_format, gf_channels, gf_active, gf_buf_size, gf_frames_written, gf_cur,
  gf_data, gf_entry, gf_log

gfVars == <<gf_format, gf_channels, gf_active, gf_buf_size,
            gf_frames_written, gf_cur, gf_data, gf_entry, gf_log>>

VARIABLES
  \* a LoopParam built for any capture client: capture_client.SampRate(),
  \* the result of NumFrames(...), the LoopParam object (its carriers as
  \* records of center_bin, lo_bin, hi_bin) and how far its set-up got
  samp_rate, cell_num_frames, parm, lp_pc

lpVars == <<samp_rate, cell_num_frames, parm, lp_pc>>

VARIABLES
  \* loopback_latency.c globals; a struct timeval is the number of the
  \* gettimeofday call that filled it (0: not filled), a struct timeval * is
  \* 0 for NULL, -1 for memory malloc returned and nothing filled yet
  sine_started, terminate_playback, terminate_capture, capture_count,
  playback_count, latency_test_mutex, sine_start_tv, cras_play_time,
  cras_cap_time,
  \* gettimeofday calls made so far, and the lines written to stdout
  ll_calls, ll_stdout,
  \* alsa_play: position and the local num_buffers; alsa_capture: position
  \* and the local cap_time
  aplay_pc, num_buffers, acap_pc, cap_time,
  \* the CRAS client's playback and capture stream threads (position inside
  \* cras_play_tone / cras_capture_tone) and cras_test_latency
  cplay_pc, ccap_pc, ctest_pc

alsaOnly == <<terminate_playback, capture_count, sine_start_tv, aplay_pc,
              num_buffers, acap_pc, cap_time>>
crasOnly == <<playback_count, cras_play_time, cras_cap_time, cplay_pc,
              ccap_pc, ctest_pc>>
llVars == <<sine_started, terminate_capture, latency_test_mutex, ll_calls,
            ll_stdout, alsaOnly, crasOnly>>

VARIABLES
  \* the arguments of a tone generator's constructor (length_sec as whole
  \* seconds and thousandths) and whether it has run
  tg_rate, tg_length, tg_pc

tgVars == <<tg_rate, tg_length, tg_pc>>

VARIABLES
  \* ASharpMinorGenerator: its SingleToneGenerator (a record of its
  \* fields), cur_note_, the caller's position, the index of each
  \* kNoteFrequencies read and the number of frames handed out
  tone_generator_, cur_note_, as_pc, as_reads, as_frames

asVars == <<tone_generator_, cur_note_, as_pc, as_reads, as_frames>>

\* the state outside the CircularBuffer, looptest and LoopControl groups
auxVars == <<genVars, ioVars, mainVars, codecVars, gfVars, lpVars,
  llVars, tgVars, asVars>>

vars == <<cbVars, ltVars, lcVars, auxVars>>

\* ------------------------------------------------------- CircularBuffer
Cells == 0 .. (buffer_count_ - 1)

\* CircularBuffer(count, size): write_ptr_(0), read_ptr_(0), all mutexes free
CircularBufferInit(count) ==
  /\ buffer_count_ = count
  /\ write_ptr_ = 0
  /\ read_ptr_ = 0
  /\ mutexes = [i \in 0 .. (count - 1) |-> "none"]
  /\ cells = [i \in 0 .. (count - 1) |-> 0]
  /\ wcell = 0
  /\ writeSeq = 0
  /\ writesDone = 0
  /\ readLog = << >>

\* LockCellToWrite: pthread_mutex_lock(&mutexes[write_ptr_]) is entered
LockCellToWrite_Call ==
  /\ wpc = "call"
  /\ wpc' = "locking"
  /\ wcell' = write_ptr_
  /\ UNCHANGED <<buffer_count_, write_ptr_, read_ptr_, mutexes, cells,
                 writeSeq, writesDone, rpc, readLog>>

\* variant of LockCellToWrite that omits the pthread_mutex_lock
LockCellToWrite_Acquire_NoLock ==
  /\ wpc = "locking"
  /\ mutexes' = [mutexes EXCEPT ![wcell] = "writer"]
  /\ wpc' = "holding"
  /\ UNCHANGED <<buffer_count_, write_ptr_, read_ptr_, cells, wcell,
                 writeSeq, writesDone, rpc, readLog>>

\* LockCellToWrite: the mutex is granted, return cell_[write_ptr_]
LockCellToWrite_Acquire ==
  /\ wpc = "locking"
  /\ mutexes[wcell] = "none"
  /\ mutexes' = [mutexes EXCEPT ![wcell] = "writer"]
  /\ wpc' = "holding"
  /\ UNCHANGED <<buffer_count_, write_ptr_, read_ptr_, cells, wcell,
                 writeSeq, writesDone, rpc, readLog>>

\* the writer fills the cell it was given with the data value v
FillCell(v) ==
  /\ wpc = "holding"
  /\ cells' = [cells EXCEPT ![wcell] = v]
  /\ wpc' = "filled"
  /\ UNCHANGED <<buffer_count_, write_ptr_, read_ptr_, mutexes, wcell,
                 writesDone, rpc, readLog>>

\* UnlockCellToWrite, first half: last = write_ptr_; write_ptr_ advances;
\* pthread_cond_signal(&has_data[last]) wakes a reader waiting on that cell
UnlockCellToWrite_Advance ==
  /\ wpc = "filled"
  /\ write_ptr_' = (write_ptr_ + 1) % buffer_count_
  /\ rpc' = IF rpc = "waiting" /\ read_ptr_ = write_ptr_ THEN "woken" ELSE rpc
  /\ wpc' = "advanced"
  /\ UNCHANGED <<buffer_count_, read_ptr_, mutexes, cells, wcell,
                 writeSeq, writesDone, readLog>>

\* variant of UnlockCellToWrite that omits the pthread_mutex_unlock
UnlockCellToWrite_Release_KeepLock(next) ==
  /\ wpc = "advanced"
  /\ writesDone' = IF writesDone < MaxWrites THEN writesDone + 1 ELSE writesDone
  /\ wpc' = next
  /\ UNCHANGED <<buffer_count_, write_ptr_, read_ptr_, mutexes, cells, wcell,
                 writeSeq, rpc, readLog>>

\* UnlockCellToWrite, second half: pthread_mutex_unlock(&mutexes[last])
UnlockCellToWrite_Release(next) ==
  /\ wpc = "advanced"
  /\ mutexes' = [mutexes EXCEPT ![wcell] = "none"]
  /\ writesDone' = IF writesDone < MaxWrites THEN writesDone + 1 ELSE writesDone
  /\ wpc' = next
  /\ UNCHANGED <<buffer_count_, write_ptr_, read_ptr_, cells, wcell,
                 writeSeq, rpc, readLog>>

\* LockCellToRead: pthread_mutex_lock(&mutexes[read_ptr_]) is entered
LockCellToRead_Call ==
  /\ rpc = "call"
  /\ rpc' = "locking"
  /\ UNCHANGED <<buffer_count_, write_ptr_, read_ptr_, mutexes, cells,
                 wpc, wcell, writeSeq, writesDone, readLog>>

\* variant of LockCellToRead that locks the mutex of the next cell
LockCellToRead_Acquire_NextCell ==
  /\ rpc \in {"locking", "woken"}
  /\ mutexes[(read_ptr_ + 1) % buffer_count_] = "none"
  /\ mutexes' = [mutexes EXCEPT ![(read_ptr_ + 1) % buffer_count_] = "reader"]
  /\ rpc' = "check"
  /\ UNCHANGED <<buffer_count_, write_ptr_, read_ptr_, cells,
                 wpc, wcell, writeSeq, writesDone, readLog>>

\* LockCellToRead: the mutex is granted (first lock, or on return from
\* pthread_cond_wait)
LockCellToRead_Acquire ==
  /\ rpc \in {"locking", "woken"}
  /\ mutexes[read_ptr_] = "none"
  /\ mutexes' = [mutexes EXCEPT ![read_ptr_] = "reader"]
  /\ rpc' = "check"
  /\ UNCHANGED <<buffer_count_, write_ptr_, read_ptr_, cells,
                 wpc, wcell, writeSeq, writesDone, readLog>>

\* variant of LockCellToRead that omits the wait for read_ptr_ # write_ptr_
LockCellToRead_Check_NoWait(log) ==
  /\ rpc = "check"
  /\ rpc' = "holding"
  /\ readLog' = IF log THEN Append(readLog, cells[read_ptr_]) ELSE readLog
  /\ UNCHANGED <<buffer_count_, write_ptr_, read_ptr_, mutexes, cells,
                 wpc, wcell, writeSeq, writesDone>>

\* LockCellToRead: while (read_ptr_ == write_ptr_) pthread_cond_wait(...);
\* return cell_[read_ptr_]
LockCellToRead_Check(log) ==
  /\ rpc = "check"
  /\ IF read_ptr_ = write_ptr_
       THEN /\ mutexes' = [mutexes EXCEPT ![read_ptr_] = "none"]
            /\ rpc' = "waiting"
            /\ UNCHANGED readLog
       ELSE /\ rpc' = "holding"
            /\ readLog' = IF log THEN Append(readLog, cells[read_ptr_])
                                 ELSE readLog
            /\ UNCHANGED mutexes
  /\ UNCHANGED <<buffer_count_, write_ptr_, read_ptr_, cells,
                 wpc, wcell, writeSeq, writesDone>>

\* pthread_cond_wait may return without a signal (spurious wakeup)
CondWait_Spurious ==
  /\ rpc = "waiting"
  /\ rpc' = "woken"
  /\ UNCHANGED <<buffer_count_, write_ptr_, read_ptr_, mutexes, cells,
                 wpc, wcell, writeSeq, writesDone, readLog>>

\* UnlockCellToRead, first half: pthread_mutex_unlock(&mutexes[read_ptr_])
UnlockCellToRead_Release ==
  /\ rpc = "holding"
  /\ mutexes' = [mutexes EXCEPT ![read_ptr_] = "none"]
  /\ rpc' = "released"
  /\ UNCHANGED <<buffer_count_, write_ptr_, read_ptr_, cells,
                 wpc, wcell, writeSeq, writesDone, readLog>>

\* variant of UnlockCellToRead that leaves read_ptr_ where it is
UnlockCellToRead_Advance_Stay(next) ==
  /\ rpc = "released"
  /\ rpc' = next
  /\ UNCHANGED <<buffer_count_, write_ptr_, read_ptr_, mutexes, cells,
                 wpc, wcell, writeSeq, writesDone, readLog>>

\* UnlockCellToRead, second half: read_ptr_ = (read_ptr_ + 1) % buffer_count_
UnlockCellToRead_Advance(next) ==
  /\ rpc = "released"
  /\ read_ptr_' = (read_ptr_ + 1) % buffer_count_
  /\ rpc' = next
  /\ UNCHANGED <<buffer_count_, write_ptr_, mutexes, cells,
                 wpc, wcell, writeSeq, writesDone, readLog>>


\* ------------------------------------------------------------ looptest.c
\* init_buffers() and test(): indices 0, nothing to read, all to write
LooptestInit(count) ==
  /\ buffer_count = count
  /\ write_index = 0
  /\ read_index = 0
  /\ read_available = 0
  /\ write_available = count
  /\ terminate = FALSE
  /\ buf_mutex = "none"
  /\ cap_pc = "start"
  /\ play_pc = "start"
  /\ buf_cap = 0
  /\ buf_play = 0

PlayWaiting == play_pc \in {"wait_half", "wait_data"}
\* pthread_cond_signal(&has_data) / spurious return of pthread_cond_wait
PlayWoken ==
  IF play_pc = "wait_half" THEN "woken_half"
  ELSE IF play_pc = "wait_data" THEN "woken_data" ELSE play_pc

\* cap_loop: pthread_mutex_lock(&buf_mutex) before the loop
cap_loop_Lock ==
  /\ cap_pc = "start"
  /\ buf_mutex = "none"
  /\ buf_mutex' = "cap"
  /\ cap_pc' = "top"
  /\ UNCHANGED <<buffer_count, write_index, read_index, write_available,
                 read_available, terminate, buf_cap, play_pc, buf_play>>

\* variant of cap_loop without the branch that drops the oldest buffer
cap_loop_Take_NoDrop ==
  /\ cap_pc = "top"
  /\ IF terminate
       THEN /\ cap_pc' = "done"
            /\ UNCHANGED <<write_index, read_index, write_available,
                           read_available, buf_cap>>
       ELSE /\ write_available' = write_available - 1
            /\ UNCHANGED <<read_index, read_available>>
            /\ buf_cap' = write_index
            /\ write_index' = (write_index + 1) % buffer_count
            /\ cap_pc' = "io"
  /\ buf_mutex' = "none"
  /\ UNCHANGED <<buffer_count, terminate, play_pc, buf_play>>

\* cap_loop: loop condition, choice of the buffer, pthread_mutex_unlock
cap_loop_Take ==
  /\ cap_pc = "top"
  /\ IF terminate
       THEN /\ cap_pc' = "done"
            /\ UNCHANGED <<write_index, read_index, write_available,
                           read_available, buf_cap>>
       ELSE /\ IF write_available = 0
                 THEN /\ read_index' = (read_index + 1) % buffer_count
                      /\ read_available' = read_available - 1
                      /\ UNCHANGED write_available
                 ELSE /\ write_available' = write_available - 1
                      /\ UNCHANGED <<read_index, read_available>>
            /\ buf_cap' = write_index
            /\ write_index' = (write_index + 1) % buffer_count
            /\ cap_pc' = "io"
  /\ buf_mutex' = "none"
  /\ UNCHANGED <<buffer_count, terminate, play_pc, buf_play>>

\* cap_loop: pcm_io(device, buffers[buf_cap].data, chunk_size) returns
cap_loop_IoDone ==
  /\ cap_pc = "io"
  /\ cap_pc' = "relock"
  /\ UNCHANGED <<buffer_count, write_index, read_index, write_available,
                 read_available, terminate, buf_mutex, buf_cap, play_pc,
                 buf_play>>

\* cap_loop: pthread_mutex_lock; read_available++; pthread_cond_signal
cap_loop_Publish ==
  /\ cap_pc = "relock"
  /\ buf_mutex = "none"
  /\ buf_mutex' = "cap"
  /\ read_available' = read_available + 1
  /\ play_pc' = PlayWoken
  /\ cap_pc' = "top"
  /\ UNCHANGED <<buffer_count, write_index, read_index, write_available,
                 terminate, buf_cap, buf_play>>

\* play_loop: pthread_mutex_lock(&buf_mutex), first or on return from
\* pthread_cond_wait
play_loop_Lock ==
  /\ play_pc \in {"start", "woken_half", "woken_data"}
  /\ buf_mutex = "none"
  /\ buf_mutex' = "play"
  /\ play_pc' = IF play_pc = "woken_data" THEN "inner" ELSE "half"
  /\ UNCHANGED <<buffer_count, write_index, read_index, write_available,
                 read_available, terminate, cap_pc, buf_cap, buf_play>>

\* variant of play_loop that starts playing without waiting for half of
\* the buffers
play_loop_WaitHalf_NoWait ==
  /\ play_pc = "half"
  /\ play_pc' = "top"
  /\ UNCHANGED <<buffer_count, write_index, read_index, write_available,
                 read_available, terminate, buf_mutex, cap_pc, buf_cap,
                 buf_play>>

\* play_loop: while (!terminate && read_available < buffer_count / 2) wait
play_loop_WaitHalf ==
  /\ play_pc = "half"
  /\ IF ~terminate /\ read_available < buffer_count \div 2
       THEN /\ play_pc' = "wait_half"
            /\ buf_mutex' = "none"
       ELSE /\ play_pc' = "top"
            /\ UNCHANGED buf_mutex
  /\ UNCHANGED <<buffer_count, write_index, read_index, write_available,
                 read_available, terminate, cap_pc, buf_cap, buf_play>>

\* play_loop: while (!terminate) { while (read_available == 0) wait;
\* buf_play = read_index; ...; pthread_mutex_unlock }
play_loop_Take ==
  /\ play_pc \in {"top", "inner"}
  /\ IF play_pc = "top" /\ terminate
       THEN /\ play_pc' = "done"
            /\ buf_mutex' = "none"
            /\ UNCHANGED <<read_index, read_available, buf_play>>
       ELSE IF read_available = 0
         THEN /\ play_pc' = "wait_data"
              /\ buf_mutex' = "none"
              /\ UNCHANGED <<read_index, read_available, buf_play>>
         ELSE /\ buf_play' = read_index
              /\ read_index' = (read_index + 1) % buffer_count
              /\ read_available' = read_available - 1
              /\ buf_mutex' = "none"
              /\ play_pc' = "io"
  /\ UNCHANGED <<buffer_count, write_index, write_available, terminate,
                 cap_pc, buf_cap>>

\* play_loop: pcm_io(device, buffers[buf_play].data, chunk_size) returns
play_loop_IoDone ==
  /\ play_pc = "io"
  /\ play_pc' = "relock"
  /\ UNCHANGED <<buffer_count, write_index, read_index, write_available,
                 read_available, terminate, buf_mutex, cap_pc, buf_cap,
                 buf_play>>

\* play_loop: pthread_mutex_lock; write_available++
play_loop_Return ==
  /\ play_pc = "relock"
  /\ buf_mutex = "none"
  /\ buf_mutex' = "play"
  /\ write_available' = write_available + 1
  /\ play_pc' = "top"
  /\ UNCHANGED <<buffer_count, write_index, read_index, read_available,
                 terminate, cap_pc, buf_cap, buf_play>>

\* pthread_cond_wait(&has_data, &buf_mutex) returns without a signal
play_loop_Spurious ==
  /\ PlayWaiting
  /\ play_pc' = PlayWoken
  /\ UNCHANGED <<buffer_count, write_index, read_index, write_available,
                 read_available, terminate, buf_mutex, cap_pc, buf_cap,
                 buf_play>>

\* signal_handler: terminate = 1
signal_handler ==
  /\ ~terminate
  /\ terminate' = TRUE
  /\ UNCHANGED <<buffer_count, write_index, read_index, write_available,
                 read_available, buf_mutex, cap_pc, buf_cap, play_pc,
                 buf_play>>

\* AudioFunTestConfig default sample rate
SampleRate == 64000

\* ---------------------------------------------------- MultiToneGenerator
\* volume 1.0, in tenths
VolOne == 10
\* no MultiToneGenerator call in progress on the controller thread
NoCall ==
  [fn |-> "none", frequencies |-> << >>, ntones |-> 0, reset_timer |-> FALSE,
   start_vol |-> 0, end_vol |-> 0]

\* MultiToneGenerator(sample_rate, length_sec) with length_sec * sample_rate
\* = wanted: the fields other than frames_generated_(0) and frequencies_
\* (cleared); a fade of 0.005 s only if length_sec > 4 * 0.005
MultiToneGeneratorInit(sample_rate, wanted) ==
  /\ frames_wanted_ = wanted
  /\ fade_frames_ = IF 50 * wanted > sample_rate THEN sample_rate \div 200
                                                  ELSE 0
  /\ cur_vol_ = VolOne
  /\ start_vol_ = VolOne
  /\ inc_vol_ = 0
  /\ tone_wave_ = 0
  /\ param_mutex = "none"
  /\ written = 0
  /\ gpc = "idle"
  /\ gcall = NoCall

\* MultiToneGenerator::HasMoreFrames
HasMoreFrames == frames_generated_ < frames_wanted_

\* HasMoreFrames, called without param_mutex: the call is entered
HasMoreFrames_Call ==
  /\ ppc = "idle"
  /\ ppc' = "hasmore"
  /\ UNCHANGED <<frames_generated_, frequencies_, genVars>>

\* HasMoreFrames: return frames_generated_ < frames_wanted_
HasMoreFrames_Return ==
  /\ ppc = "hasmore"
  /\ ppc' = "idle"
  /\ UNCHANGED <<frames_generated_, frequencies_, genVars>>

\* the loop of GetFrames over a buffer of `frames` frames: one frame per
\* turn until the buffer is full or HasMoreFrames() is false
RECURSIVE GetFramesLoop(_, _, _)
GetFramesLoop(frames_written, frames, generated) ==
  IF frames_written < frames /\ generated < frames_wanted_
    THEN GetFramesLoop(frames_written + 1, frames, generated + 1)
    ELSE frames_written

\* GetFrames: pthread_mutex_lock(&param_mutex)
GetFrames_Lock ==
  /\ ppc = "idle"
  /\ param_mutex = "none"
  /\ param_mutex' = "play"
  /\ ppc' = "gen_body"
  /\ UNCHANGED <<frames_generated_, frequencies_, frames_wanted_,
                 fade_frames_, cur_vol_, start_vol_, inc_vol_, tone_wave_,
                 written, gpc, gcall>>

\* variant of GetFrames whose loop does not ask HasMoreFrames()
GetFrames_Body_NoCheck(frames, kBytesPerFrame) ==
  /\ ppc = "gen_body"
  /\ tone_wave_' = Len(frequencies_)
  /\ cur_vol_' = cur_vol_ + frames * inc_vol_
  /\ frames_generated_' = frames_generated_ + frames
  /\ written' = frames * kBytesPerFrame
  /\ param_mutex' = "none"
  /\ ppc' = "idle"
  /\ UNCHANGED <<frequencies_, frames_wanted_, fade_frames_, start_vol_,
                 inc_vol_, gpc, gcall>>

\* GetFrames on a buffer of frames * kBytesPerFrame bytes: tone_wave_.resize,
\* the frame loop, pthread_mutex_unlock, return frames_written * kBytesPerFrame
GetFrames_Body(frames, kBytesPerFrame) ==
  /\ ppc = "gen_body"
  /\ LET frames_written == GetFramesLoop(0, frames, frames_generated_)
     IN  /\ tone_wave_' = Len(frequencies_)
         /\ cur_vol_' = cur_vol_ + frames_written * inc_vol_
         /\ frames_generated_' = frames_generated_ + frames_written
         /\ written' = frames_written * kBytesPerFrame
  /\ param_mutex' = "none"
  /\ ppc' = "idle"
  /\ UNCHANGED <<frequencies_, frames_wanted_, fade_frames_, start_vol_,
                 inc_vol_, gpc, gcall>>

\* the frequencies a Reset call stores, for each of the three overloads:
\* the vector, the first ntones elements of the array, the single frequency
NewFrequencies(call) ==
  CASE call.fn = "Reset_vector" -> call.frequencies
    [] call.fn = "Reset_array" ->
         [i \in 1 .. call.ntones |-> call.frequencies[i]]
    [] call.fn = "Reset_double" -> << call.frequencies[1] >>

\* Reset (any overload): pthread_mutex_lock(&param_mutex)
Reset_Lock(call) ==
  /\ gpc = "idle"
  /\ param_mutex = "none"
  /\ param_mutex' = "ctl"
  /\ gpc' = "reset_body"
  /\ gcall' = call
  /\ UNCHANGED <<frames_generated_, frequencies_, frames_wanted_,
                 fade_frames_, cur_vol_, start_vol_, inc_vol_, tone_wave_,
                 written, ppc>>

\* variant of Reset that resets the timer whatever reset_timer is
Reset_Body_AlwaysTimer ==
  /\ gpc = "reset_body"
  /\ frequencies_' = NewFrequencies(gcall)
  /\ frames_generated_' = 0
  /\ cur_vol_' = start_vol_
  /\ param_mutex' = "none"
  /\ gpc' = "idle"
  /\ gcall' = NoCall
  /\ UNCHANGED <<frames_wanted_, fade_frames_, start_vol_, inc_vol_,
                 tone_wave_, written, ppc>>

\* Reset: frequencies_ = ...; if (reset_timer) { frames_generated_ = 0;
\* cur_vol_ = start_vol_; } pthread_mutex_unlock(&param_mutex)
Reset_Body ==
  /\ gpc = "reset_body"
  /\ frequencies_' = NewFrequencies(gcall)
  /\ IF gcall.reset_timer
       THEN /\ frames_generated_' = 0
            /\ cur_vol_' = start_vol_
       ELSE UNCHANGED <<frames_generated_, cur_vol_>>
  /\ param_mutex' = "none"
  /\ gpc' = "idle"
  /\ gcall' = NoCall
  /\ UNCHANGED <<frames_wanted_, fade_frames_, start_vol_, inc_vol_,
                 tone_wave_, written, ppc>>

\* SetVolumes: pthread_mutex_lock(&param_mutex)
SetVolumes_Lock(call) ==
  /\ gpc = "idle"
  /\ param_mutex = "none"
  /\ param_mutex' = "ctl"
  /\ gpc' = "vol_body"
  /\ gcall' = call
  /\ UNCHANGED <<frames_generated_, frequencies_, frames_wanted_,
                 fade_frames_, cur_vol_, start_vol_, inc_vol_, tone_wave_,
                 written, ppc>>

\* SetVolumes: cur_vol_ = start_vol_ = start_vol;
\* inc_vol_ = (end_vol - start_vol) / frames_wanted_; unlock
SetVolumes_Body ==
  /\ gpc = "vol_body"
  /\ cur_vol_' = gcall.start_vol
  /\ start_vol_' = gcall.start_vol
  /\ inc_vol_' = (gcall.end_vol - gcall.start_vol) \div frames_wanted_
  /\ param_mutex' = "none"
  /\ gpc' = "idle"
  /\ gcall' = NoCall
  /\ UNCHANGED <<frames_generated_, frequencies_, frames_wanted_,
                 fade_frames_, tone_wave_, written, ppc>>

\* the parts of the state a specification does not use stay at rest
CBIdle == CircularBufferInit(1) /\ wpc = "done" /\ rpc = "done"
LCIdle ==
  /\ play_state = "kCreated"
  /\ cap_state = "kCreated"
  /\ ppc = "exited"
  /\ frames_generated_ = 0
  /\ frequencies_ = << >>
  /\ completed = 0
  /\ num_frames = 0
  /\ target_carrier = 0
  /\ frequencies = << >>
  /\ delay = 0
  /\ accum_confidence = 0
  /\ mf_c = 0
  /\ outcome = "none"
  /\ cap_after = 0
  /\ play_after = 0
LooptestIdle ==
  /\ LooptestInit(1)
\* LoopControl's generator: MultiToneGenerator(config.sample_rate,
\* config.tone_length_sec) and SetVolumes(1.0, 1.0)
GenIdle == MultiToneGeneratorInit(SampleRate, ToneFrames)
\* no pcm_io call in progress
IoIdle ==
  /\ direction = "capture"
  /\ io_count = 0
  /\ result = 0
  /\ io_completed = 0
  /\ io_pc = "returned"
\* AudioFunTestConfig() defaults: format and channels
DefaultConfig == [format |-> "kPcmS16", channels |-> 2]
\* the main thread inside LoopControl's analysis loop
MainIdle ==
  /\ mpc = "running"
  /\ config = DefaultConfig
  /\ init_step = 0
  /\ cap_last_error_ = 0
  /\ play_last_error_ = 0
  /\ threads = 2
  /\ loop_ret = -1
  /\ exit_status = -1
\* no codec call made
CodecIdle ==
  /\ ndebug = FALSE
  /\ format_ = "kPcmS16"
  /\ num_channels_ = 2
  /\ cell_frames = 0
  /\ sample_cell = << >>
  /\ magnitude = 0
  /\ cpc = "input"
  /\ ret = [kind |-> "none", value |-> 0, str |-> ""]
  /\ out_sample = 0
  /\ double_cell = << >>
  /\ frame_bytes_ = 0
  /\ chunk_frames = 0
\* no GetFrames call followed frame by frame
GfIdle ==
  /\ gf_format = "kPcmS16"
  /\ gf_channels = 2
  /\ gf_active = {}
  /\ gf_buf_size = 0
  /\ gf_frames_written = 0
  /\ gf_cur = 0
  /\ gf_data = << >>
  /\ gf_entry = 0
  /\ gf_log = << >>
\* no LoopParam constructed
NoParm ==
  [num_frames |-> 0, num_freq |-> 0, num_bin |-> 0, bin_start |-> 0,
   bin_end |-> 0, num_used_bin |-> 0, carriers |-> << >>,
   target_carrier |-> 0]
LpIdle ==
  /\ samp_rate = SampleRate
  /\ cell_num_frames = 0
  /\ parm = NoParm
  /\ lp_pc = "input"
\* the globals of loopback_latency.c as the program starts
LatencyGlobals ==
  /\ sine_started = FALSE
  /\ terminate_playback = FALSE
  /\ terminate_capture = FALSE
  /\ capture_count = 0
  /\ playback_count = 0
  /\ latency_test_mutex = "none"
  /\ sine_start_tv = 0
  /\ cras_play_time = 0
  /\ cras_cap_time = 0
  /\ ll_calls = 0
  /\ ll_stdout = << >>
  /\ num_buffers = 0
  /\ cap_time = 0
\* no latency test started
LlIdle ==
  /\ LatencyGlobals
  /\ aplay_pc = "none"
  /\ acap_pc = "none"
  /\ cplay_pc = "none"
  /\ ccap_pc = "none"
  /\ ctest_pc = "none"
\* no tone generator under construction
TgIdle ==
  /\ tg_rate = SampleRate
  /\ tg_length = [sec |-> 0, milli |-> 10]
  /\ tg_pc = "done"
\* no ASharpMinorGenerator
AsIdle ==
  /\ tone_generator_ = [frames_generated_ |-> 0, frames_wanted_ |-> 0,
                        fade_frames_ |-> 0, frequency_ |-> 0]
  /\ cur_note_ = 0
  /\ as_pc = "none"
  /\ as_reads = << >>
  /\ as_frames = 0
AuxIdle ==
  /\ GenIdle /\ IoIdle /\ MainIdle /\ CodecIdle /\ GfIdle /\ LpIdle
  /\ LlIdle /\ TgIdle /\ AsIdle

\* --------------------------------------------- SpecCB: one writer, one reader
\* The writer numbers the cells it writes 1, 2, 3, ...
WriterFill ==
  /\ writeSeq < MaxWrites
  /\ writeSeq' = writeSeq + 1
  /\ FillCell(writeSeq + 1)

WriterLoop ==
  /\ wpc = "loop"
  /\ writeSeq < MaxWrites
  /\ wpc' = "call"
  /\ UNCHANGED <<buffer_count_, write_ptr_, read_ptr_, mutexes, cells, wcell,
                 writeSeq, writesDone, rpc, readLog>>

InitCB ==
  /\ \E count \in 1 .. MaxCount : CircularBufferInit(count)
  /\ wpc = "loop"
  /\ rpc = "call"
  /\ LooptestIdle
  /\ LCIdle
  /\ AuxIdle

NextCB ==
  \/ WriterLoop /\ UNCHANGED <<ltVars, lcVars, auxVars>>
  \/ LockCellToWrite_Call /\ UNCHANGED <<ltVars, lcVars, auxVars>>
  \/ LockCellToWrite_Acquire /\ UNCHANGED <<ltVars, lcVars, auxVars>>
  \/ WriterFill /\ UNCHANGED <<ltVars, lcVars, auxVars>>
  \/ UnlockCellToWrite_Advance /\ UNCHANGED <<ltVars, lcVars, auxVars>>
  \/ UnlockCellToWrite_Release("loop") /\ UNCHANGED <<ltVars, lcVars, auxVars>>
  \/ LockCellToRead_Call /\ UNCHANGED <<ltVars, lcVars, auxVars>>
  \/ LockCellToRead_Acquire /\ UNCHANGED <<ltVars, lcVars, auxVars>>
  \/ LockCellToRead_Check(TRUE) /\ UNCHANGED <<ltVars, lcVars, auxVars>>
  \/ CondWait_Spurious /\ UNCHANGED <<ltVars, lcVars, auxVars>>
  \/ UnlockCellToRead_Release /\ UNCHANGED <<ltVars, lcVars, auxVars>>
  \/ UnlockCellToRead_Advance("call") /\ UNCHANGED <<ltVars, lcVars, auxVars>>

SpecCB == InitCB /\ [][NextCB]_vars

\* ---------- SpecCBLive: a writer that never stops, a reader that loops
\* the writer starts its next LockCellToWrite / UnlockCellToWrite cycle
WriterLoop_Forever ==
  /\ wpc = "loop"
  /\ wpc' = "call"
  /\ UNCHANGED <<buffer_count_, write_ptr_, read_ptr_, mutexes, cells, wcell,
                 writeSeq, writesDone, rpc, readLog>>

\* the steps of the writer thread (the cells are not numbered)
WriterStep ==
  /\ \/ WriterLoop_Forever
     \/ LockCellToWrite_Call
     \/ LockCellToWrite_Acquire
     \/ FillCell(1) /\ UNCHANGED writeSeq
     \/ UnlockCellToWrite_Advance
     \/ UnlockCellToWrite_Release("loop")
  /\ UNCHANGED <<ltVars, lcVars, auxVars>>

\* the steps of the reader thread
ReaderStep ==
  /\ \/ LockCellToRead_Call
     \/ LockCellToRead_Acquire
     \/ LockCellToRead_Check(FALSE)
     \/ UnlockCellToRead_Release
     \/ UnlockCellToRead_Advance("call")
  /\ UNCHANGED <<ltVars, lcVars, auxVars>>

InitCBLive ==
  /\ \E count \in 2 .. MaxCount : CircularBufferInit(count)
  /\ wpc = "loop"
  /\ rpc = "call"
  /\ LooptestIdle
  /\ LCIdle
  /\ AuxIdle

NextCBLive ==
  \/ WriterStep
  \/ ReaderStep
  \/ CondWait_Spurious /\ UNCHANGED <<ltVars, lcVars, auxVars>>

\* weak fairness of the two threads; a spurious wakeup need not happen
SpecCBLive ==
  InitCBLive /\ [][NextCBLive]_vars /\ WF_vars(WriterStep) /\ WF_vars(ReaderStep)

\* ------------------------------------- SpecLoop: looptest's two threads
InitLoop ==
  /\ \E count \in 1 .. MaxCount : LooptestInit(count)
  /\ CBIdle
  /\ LCIdle
  /\ AuxIdle

NextLoop ==
  \/ cap_loop_Lock /\ UNCHANGED <<cbVars, lcVars, auxVars>>
  \/ cap_loop_Take /\ UNCHANGED <<cbVars, lcVars, auxVars>>
  \/ cap_loop_IoDone /\ UNCHANGED <<cbVars, lcVars, auxVars>>
  \/ cap_loop_Publish /\ UNCHANGED <<cbVars, lcVars, auxVars>>
  \/ play_loop_Lock /\ UNCHANGED <<cbVars, lcVars, auxVars>>
  \/ play_loop_WaitHalf /\ UNCHANGED <<cbVars, lcVars, auxVars>>
  \/ play_loop_Take /\ UNCHANGED <<cbVars, lcVars, auxVars>>
  \/ play_loop_IoDone /\ UNCHANGED <<cbVars, lcVars, auxVars>>
  \/ play_loop_Return /\ UNCHANGED <<cbVars, lcVars, auxVars>>
  \/ play_loop_Spurious /\ UNCHANGED <<cbVars, lcVars, auxVars>>
  \/ signal_handler /\ UNCHANGED <<cbVars, lcVars, auxVars>>

SpecLoop == InitLoop /\ [][NextLoop]_vars

\* the steps of each thread; a thread that can run is eventually scheduled,
\* and a pcm_io call returns. A spurious return of pthread_cond_wait and
\* the delivery of a signal are not guaranteed to happen.
cap_loop_Step ==
  /\ \/ cap_loop_Lock
     \/ cap_loop_Take
     \/ cap_loop_IoDone
     \/ cap_loop_Publish
  /\ UNCHANGED <<cbVars, lcVars, auxVars>>

play_loop_Step ==
  /\ \/ play_loop_Lock
     \/ play_loop_WaitHalf
     \/ play_loop_Take
     \/ play_loop_IoDone
     \/ play_loop_Return
  /\ UNCHANGED <<cbVars, lcVars, auxVars>>

SpecLoopFair ==
  /\ InitLoop
  /\ [][NextLoop]_vars
  /\ SF_vars(cap_loop_Step)
  /\ SF_vars(play_loop_Step)

\* ------------- SpecGen: one MultiToneGenerator shared by two threads
\* sample rate and tone lengths (in frames) of the generators explored:
\* an empty tone, one too short for a fade, one with fade_frames_ = 1
GenSampleRate == 200
GenWantedSet == {0, 2, 5}
\* buf_size / kBytesPerFrame and kBytesPerFrame of the GetFrames calls
GenChunkFrames == {1, 3}
GenFrameBytes == {2, 4}
\* the Reset calls of the controller thread
ResetCalls ==
  {[fn |-> "Reset_vector", frequencies |-> f, ntones |-> Len(f),
    reset_timer |-> t, start_vol |-> 0, end_vol |-> 0] :
     f \in {<< >>, <<440>>, <<440, 880>>}, t \in BOOLEAN}
  \cup
  {[fn |-> "Reset_array", frequencies |-> <<440, 880>>, ntones |-> n,
    reset_timer |-> t, start_vol |-> 0, end_vol |-> 0] :
     n \in 0 .. 2, t \in BOOLEAN}
  \cup
  {[fn |-> "Reset_double", frequencies |-> <<880>>, ntones |-> 1,
    reset_timer |-> t, start_vol |-> 0, end_vol |-> 0] : t \in BOOLEAN}
\* the SetVolumes calls of the controller thread
VolumeCalls ==
  {[fn |-> "SetVolumes", frequencies |-> << >>, ntones |-> 0,
    reset_timer |-> FALSE, start_vol |-> v[1], end_vol |-> v[2]] :
     v \in {<<VolOne, VolOne>>, <<0, VolOne>>, <<VolOne, 0>>}}

\* what the generator actions leave alone
genRest == <<cbVars, ltVars, play_state, cap_state, completed, ctlVars,
             cap_after, play_after, ioVars, mainVars, codecVars, gfVars,
             lpVars,
  llVars, tgVars, asVars>>

InitGen ==
  /\ \E wanted \in GenWantedSet :
       MultiToneGeneratorInit(GenSampleRate, wanted)
  /\ frames_generated_ = 0
  /\ frequencies_ = << >>
  /\ ppc = "idle"
  /\ play_state = "kCreated"
  /\ cap_state = "kCreated"
  /\ completed = 0
  /\ num_frames = 0
  /\ target_carrier = 0
  /\ frequencies = << >>
  /\ delay = 0
  /\ accum_confidence = 0
  /\ mf_c = 0
  /\ outcome = "none"
  /\ cap_after = 0
  /\ play_after = 0
  /\ CBIdle
  /\ LooptestIdle
  /\ IoIdle
  /\ MainIdle
  /\ CodecIdle
  /\ GfIdle
  /\ LpIdle
  /\ LlIdle
  /\ TgIdle
  /\ AsIdle

\* the playback thread calls HasMoreFrames and GetFrames, the controller
\* thread Reset and SetVolumes ((end_vol - start_vol) / 0 is not modelled)
NextGen ==
  \/ HasMoreFrames_Call /\ UNCHANGED genRest
  \/ HasMoreFrames_Return /\ UNCHANGED genRest
  \/ GetFrames_Lock /\ UNCHANGED genRest
  \/ /\ \E frames \in GenChunkFrames, kBytesPerFrame \in GenFrameBytes :
          GetFrames_Body(frames, kBytesPerFrame)
     /\ UNCHANGED genRest
  \/ (\E call \in ResetCalls : Reset_Lock(call)) /\ UNCHANGED genRest
  \/ Reset_Body /\ UNCHANGED genRest
  \/ /\ frames_wanted_ > 0
     /\ \E call \in VolumeCalls : SetVolumes_Lock(call)
     /\ UNCHANGED genRest
  \/ SetVolumes_Body /\ UNCHANGED genRest

SpecGen == InitGen /\ [][NextGen]_vars

\* ----------------------------------------------------------- sample codec
Formats == {"kPcmU8", "kPcmS16", "kPcmS24", "kPcmS32"}
AllFormats == Formats \cup {"kPcmInvalid"}

\* how a call ends: with a value, with a string, normally without a value,
\* or in abort()
Value(v) == [kind |-> "value", value |-> v, str |-> ""]
String(t) == [kind |-> "string", value |-> 0, str |-> t]
Void == [kind |-> "void", value |-> 0, str |-> ""]
Abort == [kind |-> "abort", value |-> 0, str |-> ""]

\* `default: assert(false);` as the last statement of a function that
\* returns a value: abort(), or with NDEBUG control flows off the end of
\* the function, which is undefined (abort or the return of some value)
AssertThenFallOff(nd) ==
  IF nd THEN {Abort, Value(0), String("")} ELSE {Abort}

\* SampleFormat::bytes() of a valid format
FormatBytes(f) ==
  CASE f = "kPcmU8" -> 1
    [] f = "kPcmS16" -> 2
    [] f = "kPcmS24" -> 3
    [] f = "kPcmS32" -> 4

\* SampleFormat::bytes(): the ways the call can end
bytes(f, nd) ==
  IF f \in Formats THEN {Value(FormatBytes(f))} ELSE AssertThenFallOff(nd)

\* SampleFormat::to_string(): the ways the call can end
to_string(f, nd) ==
  CASE f = "kPcmU8" -> {String("u8")}
    [] f = "kPcmS16" -> {String("s16")}
    [] f = "kPcmS24" -> {String("s24")}
    [] f = "kPcmS32" -> {String("s32")}
    [] OTHER -> AssertThenFallOff(nd)

\* the value of SND_PCM_FORMAT_UNKNOWN
SND_PCM_FORMAT_UNKNOWN == -1

\* SampleFormatToFrameBytes(format, channels)
SampleFormatToFrameBytes(f, channels) ==
  CASE f = "kPcmU8" -> channels
    [] f = "kPcmS16" -> channels * 2
    [] f = "kPcmS24" -> channels * 4
    [] f = "kPcmS32" -> channels * 4
    [] OTHER -> SND_PCM_FORMAT_UNKNOWN

\* std::numeric_limits<T>::max() of the sample type, 1 << 23 for S24
SampleMax(f) ==
  CASE f = "kPcmU8" -> 255
    [] f = "kPcmS16" -> 32767
    [] f = "kPcmS24" -> 8388608
    [] f = "kPcmS32" -> 2147483647

\* the conversion of (m2 / 2) * max to an integer, which truncates toward 0
RECURSIVE TruncHalves(_, _)
TruncHalves(m2, max) ==
  IF m2 < 0 THEN 0 - TruncHalves(0 - m2, max)
  ELSE (m2 \div 2) * max + (m2 % 2) * (max \div 2)

\* the sample WriteSample<T> / WriteSampleForFormat stores for the magnitude
\* m2 / 2: unsigned types store (magnitude + 1) / 2 * max; S24 stores the
\* low three bytes of the int32 value
StoredSample(f, m2) ==
  CASE f = "kPcmU8" -> ((m2 + 2) * SampleMax(f)) \div 4
    [] f = "kPcmS24" -> TruncHalves(m2, SampleMax(f)) % 16777216
    [] OTHER -> TruncHalves(m2, SampleMax(f))

\* the magnitude SampleCellToDoubleCell decodes from one stored sample, as
\* a numerator over SampleMax(f): val * 2 - 1 for the unsigned type
DecodeNum(f, sample) ==
  IF f = "kPcmU8" THEN 2 * sample - SampleMax(f) ELSE sample

\* SampleCellToDoubleCell, one output value: the inner loop adds the
\* magnitude of ptr[n] once per channel, then the sum is divided by
\* num_channels if num_channels > 1; <<numerator, divisor>>
DoubleOf(f, cell, n, channels) ==
  IF channels > 1 THEN <<channels * DecodeNum(f, cell[n + 1]), channels>>
                  ELSE <<DecodeNum(f, cell[n + 1]), 1>>

\* SampleFormat::bytes()
Call_bytes ==
  /\ cpc = "input"
  /\ ret' \in bytes(format_, ndebug)
  /\ cpc' = "bytes"
  /\ UNCHANGED <<ndebug, format_, num_channels_, cell_frames, sample_cell,
                 magnitude, out_sample, double_cell, frame_bytes_,
                 chunk_frames>>

\* SampleFormat::to_string()
Call_to_string ==
  /\ cpc = "input"
  /\ ret' \in to_string(format_, ndebug)
  /\ cpc' = "to_string"
  /\ UNCHANGED <<ndebug, format_, num_channels_, cell_frames, sample_cell,
                 magnitude, out_sample, double_cell, frame_bytes_,
                 chunk_frames>>

\* SampleFormatToFrameBytes(format, channels)
Call_SampleFormatToFrameBytes ==
  /\ cpc = "input"
  /\ ret' = Value(SampleFormatToFrameBytes(format_, num_channels_))
  /\ cpc' = "SampleFormatToFrameBytes"
  /\ UNCHANGED <<ndebug, format_, num_channels_, cell_frames, sample_cell,
                 magnitude, out_sample, double_cell, frame_bytes_,
                 chunk_frames>>

\* WriteSampleForFormat(data, magnitude, format): stores one sample and
\* returns data advanced by its size; an invalid format reaches
\* assert(false) and, with NDEBUG, return NULL
Call_WriteSampleForFormat ==
  /\ cpc = "input"
  /\ \E m2 \in -2 .. 2 :
       /\ magnitude' = m2
       /\ IF format_ \in Formats
            THEN /\ out_sample' = StoredSample(format_, m2)
                 /\ ret' = Value(FormatBytes(format_))
            ELSE /\ UNCHANGED out_sample
                 /\ ret' = IF ndebug THEN Value(0) ELSE Abort
  /\ cpc' = "WriteSampleForFormat"
  /\ UNCHANGED <<ndebug, format_, num_channels_, cell_frames, sample_cell,
                 double_cell, frame_bytes_, chunk_frames>>

\* SampleCellToDoubleCell(sample_cell, double_cell, num_frames, format,
\* num_channels): no branch is taken for an invalid format
Call_SampleCellToDoubleCell ==
  /\ cpc = "input"
  /\ double_cell' =
       IF format_ \in Formats
         THEN [n \in 1 .. cell_frames |->
                 DoubleOf(format_, sample_cell, n - 1, num_channels_)]
         ELSE double_cell
  /\ ret' = Void
  /\ cpc' = "SampleCellToDoubleCell"
  /\ UNCHANGED <<ndebug, format_, num_channels_, cell_frames, sample_cell,
                 magnitude, out_sample, frame_bytes_, chunk_frames>>

\* one playback chunk of num_frames_ = cell_frames frames:
\* PlaybackParam::Init sets frame_bytes_, PlayTones passes
\* to_write = num_frames_ * frame_bytes_ to GetFrames, which computes
\* frames = buf_size / (channels * format.bytes()); Init succeeds only for
\* a format the device accepts
PlayTones_Chunk ==
  /\ cpc = "input"
  /\ format_ \in Formats
  /\ frame_bytes_' = SampleFormatToFrameBytes(format_, num_channels_)
  /\ chunk_frames' = (cell_frames * frame_bytes_')
                        \div (num_channels_ * FormatBytes(format_))
  /\ ret' = Value(chunk_frames' * num_channels_ * FormatBytes(format_))
  /\ cpc' = "PlayTones"
  /\ UNCHANGED <<ndebug, format_, num_channels_, cell_frames, sample_cell,
                 magnitude, out_sample, double_cell>>

\* SampleCellToDoubleCell(data, double_cell, 1, format, 1) on the sample
\* that WriteSampleForFormat(data, magnitude, format) has just stored
Call_SampleCellToDoubleCell_Written ==
  /\ cpc = "WriteSampleForFormat"
  /\ format_ \in Formats
  /\ sample_cell' = << out_sample >>
  /\ cell_frames' = 1
  /\ num_channels_' = 1
  /\ double_cell' = << DoubleOf(format_, sample_cell', 0, 1) >>
  /\ ret' = Void
  /\ cpc' = "RoundTrip"
  /\ UNCHANGED <<ndebug, format_, magnitude, out_sample, frame_bytes_,
                 chunk_frames>>

\* ------------------------------ SpecCodec: one call of a codec function
\* channel counts and frame counts of the calls explored
ChannelCounts == {1, 2}
FrameCounts == {1, 2, 3}
\* stored samples the input cell is made of: the extremes and a middle
\* value of each type (for S24 the three bytes read as an unsigned number)
Samples(f) ==
  CASE f = "kPcmU8" -> {0, 128, 255}
    [] f = "kPcmS16" -> {-32767, 0, 16384}
    [] f = "kPcmS24" -> {0, 4194304, 16777215}
    [] f = "kPcmS32" -> {-1073741823, 0, 1073741823}
    [] OTHER -> {0}

codecRest == <<cbVars, ltVars, lcVars, genVars, ioVars, mainVars, gfVars,
              lpVars,
  llVars, tgVars, asVars>>

InitCodec ==
  /\ ndebug \in BOOLEAN
  /\ format_ \in AllFormats
  /\ num_channels_ \in ChannelCounts
  /\ cell_frames \in FrameCounts
  /\ sample_cell \in [1 .. cell_frames * num_channels_ -> Samples(format_)]
  /\ magnitude = 0
  /\ cpc = "input"
  /\ ret = [kind |-> "none", value |-> 0, str |-> ""]
  /\ out_sample = 0
  /\ double_cell = << >>
  /\ frame_bytes_ = 0
  /\ chunk_frames = 0
  /\ CBIdle
  /\ LooptestIdle
  /\ LCIdle
  /\ GenIdle
  /\ IoIdle
  /\ MainIdle
  /\ GfIdle
  /\ LpIdle
  /\ LlIdle
  /\ TgIdle
  /\ AsIdle

NextCodec ==
  \/ Call_bytes /\ UNCHANGED codecRest
  \/ Call_to_string /\ UNCHANGED codecRest
  \/ Call_SampleFormatToFrameBytes /\ UNCHANGED codecRest
  \/ Call_WriteSampleForFormat /\ UNCHANGED codecRest
  \/ Call_SampleCellToDoubleCell /\ UNCHANGED codecRest
  \/ PlayTones_Chunk /\ UNCHANGED codecRest
  \/ Call_SampleCellToDoubleCell_Written /\ UNCHANGED codecRest

SpecCodec == InitCodec /\ [][NextCodec]_vars

\* ------------------------------ MultiToneGenerator::GetFrames, by frame
\* GetFadeMagnitude(): the k and F of sin(kHalfPi * k / F), which grows
\* strictly with k / F for 0 <= k <= F, is 0.0 at k = 0 and 1.0 at k = F;
\* <<1, 1>> is the 1.0 of the last branch
GetFadeMagnitude ==
  LET frames_left == frames_wanted_ - frames_generated_
  IN  IF frames_generated_ < fade_frames_
        THEN <<frames_generated_, fade_frames_>>
        ELSE IF frames_left < fade_frames_
               THEN <<frames_left, fade_frames_>>
               ELSE <<1, 1>>

\* const size_t kBytesPerFrame = channels * format.bytes()
kBytesPerFrame == gf_channels * FormatBytes(gf_format)

\* the values (in halves) the sum of the tone waves, scaled by cur_vol_ and
\* the number of tones, takes in the frames explored
WaveValues == {-1, 2}

\* frame_magnitude of one frame: 0 when there is no tone to add up or the
\* fade multiplier is 0.0, otherwise the scaled wave value
FrameMagnitudes(fade) ==
  IF Len(frequencies_) = 0 \/ fade[1] = 0 THEN {0} ELSE WaveValues

\* the loop over the channels c .. channels - 1 of one frame, from byte
\* offset `at`: a variant that writes nothing for a channel that is not
\* active
RECURSIVE WriteChannels_SkipInactive(_, _, _)
WriteChannels_SkipInactive(c, at, frame_magnitude) ==
  IF c >= gf_channels THEN << >>
  ELSE IF c \in gf_active
         THEN << [at |-> at, c |-> c,
                  sample |-> StoredSample(gf_format, frame_magnitude)] >>
              \o WriteChannels_SkipInactive(c + 1,
                                            at + FormatBytes(gf_format),
                                            frame_magnitude)
         ELSE WriteChannels_SkipInactive(c + 1, at, frame_magnitude)

\* the loop over the channels c .. channels - 1 of one frame, from byte
\* offset `at`: cur = WriteSampleForFormat(cur, frame_magnitude or 0.0f,
\* format), which stores one sample and advances cur by its size
RECURSIVE WriteChannels(_, _, _)
WriteChannels(c, at, frame_magnitude) ==
  IF c >= gf_channels THEN << >>
  ELSE << [at |-> at, c |-> c,
           sample |-> StoredSample(gf_format,
                                   IF c \in gf_active THEN frame_magnitude
                                                      ELSE 0)] >>
       \o WriteChannels(c + 1, at + FormatBytes(gf_format), frame_magnitude)

\* GetFrames entered: kBytesPerFrame, cur = data, frames, the lock of
\* param_mutex and tone_wave_.resize(frequencies_.size())
GetFrames_Enter(format, nchannels, active, size) ==
  /\ ppc = "idle"
  /\ param_mutex = "none"
  /\ param_mutex' = "play"
  /\ gf_format' = format
  /\ gf_channels' = nchannels
  /\ gf_active' = active
  /\ gf_buf_size' = size
  /\ gf_frames_written' = 0
  /\ gf_cur' = 0
  /\ gf_data' = << >>
  /\ gf_entry' = frames_generated_
  /\ gf_log' = << >>
  /\ tone_wave_' = Len(frequencies_)
  /\ ppc' = "frame_loop"
  /\ UNCHANGED <<frames_generated_, frequencies_, frames_wanted_,
                 fade_frames_, cur_vol_, start_vol_, inc_vol_, written, gpc,
                 gcall>>

\* one turn of the frame loop; channel_loop[frame_magnitude] is what the
\* channel loop stores for the frame
GetFrames_FrameWith(channel_loop) ==
  /\ ppc = "frame_loop"
  /\ gf_frames_written < gf_buf_size \div kBytesPerFrame
  /\ HasMoreFrames
  /\ \E frame_magnitude \in FrameMagnitudes(GetFadeMagnitude) :
       LET stored == channel_loop[frame_magnitude]
       IN  /\ gf_data' = gf_data \o stored
           /\ gf_cur' = gf_cur + Len(stored) * FormatBytes(gf_format)
           /\ gf_log' = Append(gf_log,
                               [g |-> frames_generated_,
                                fade |-> GetFadeMagnitude,
                                at |-> gf_cur,
                                frame_magnitude |-> frame_magnitude])
  /\ cur_vol_' = cur_vol_ + inc_vol_
  /\ frames_generated_' = frames_generated_ + 1
  /\ gf_frames_written' = gf_frames_written + 1
  /\ UNCHANGED <<ppc, frequencies_, frames_wanted_, fade_frames_,
                 start_vol_, inc_vol_, tone_wave_, param_mutex, written,
                 gpc, gcall, gf_format, gf_channels, gf_active, gf_buf_size,
                 gf_entry>>

\* variant of the frame loop that omits the channels that are not active
GetFrames_Frame_SkipInactive ==
  GetFrames_FrameWith([frame_magnitude \in FrameMagnitudes(GetFadeMagnitude)
                         |-> WriteChannels_SkipInactive(0, gf_cur,
                                                        frame_magnitude)])

\* one turn of the frame loop: frames_written < frames and HasMoreFrames();
\* frame_magnitude, cur_vol_ += inc_vol_, the channel loop,
\* ++frames_generated_
GetFrames_Frame ==
  GetFrames_FrameWith([frame_magnitude \in FrameMagnitudes(GetFadeMagnitude)
                         |-> WriteChannels(0, gf_cur, frame_magnitude)])

\* variant of the return that reports the whole buffer as written
GetFrames_Return_Frames ==
  /\ ppc = "frame_loop"
  /\ ~(/\ gf_frames_written < gf_buf_size \div kBytesPerFrame
        /\ HasMoreFrames)
  /\ param_mutex' = "none"
  /\ written' = (gf_buf_size \div kBytesPerFrame) * kBytesPerFrame
  /\ ppc' = "idle"
  /\ UNCHANGED <<frames_generated_, frequencies_, frames_wanted_,
                 fade_frames_, cur_vol_, start_vol_, inc_vol_, tone_wave_,
                 gpc, gcall, gfVars>>

\* the frame loop ends (buffer full, or the break on !HasMoreFrames()):
\* pthread_mutex_unlock, return frames_written * kBytesPerFrame
GetFrames_Return ==
  /\ ppc = "frame_loop"
  /\ ~(/\ gf_frames_written < gf_buf_size \div kBytesPerFrame
        /\ HasMoreFrames)
  /\ param_mutex' = "none"
  /\ written' = gf_frames_written * kBytesPerFrame
  /\ ppc' = "idle"
  /\ UNCHANGED <<frames_generated_, frequencies_, frames_wanted_,
                 fade_frames_, cur_vol_, start_vol_, inc_vol_, tone_wave_,
                 gpc, gcall, gfVars>>

\* ----------- SpecFrames: GetFrames by frame, with a thread calling Reset
\* sample rates and tone lengths (frames) of the generators explored: they
\* give fade_frames_ 0 (tone too short for a fade), 1 and 3
FrameSampleRates == {200, 600}
FrameWantedSet == {3, 13}
\* the channel counts of the calls and, for each, the active_channels sets
FrameChannels == {1, 2}
ActiveSets(nchannels) == SUBSET (0 .. (nchannels - 1))
\* buf_size of the calls: whole frames, and whole frames plus one byte
BufSizes(format, nchannels) ==
  {n * nchannels * FormatBytes(format) + r : n \in {0, 2}, r \in {0, 1}}
\* the Reset calls of the other thread
FrameResetCalls == {call \in ResetCalls : call.fn = "Reset_double"}

framesRest == <<cbVars, ltVars, play_state, cap_state, completed, ctlVars,
                cap_after, play_after, ioVars, mainVars, codecVars, lpVars,
  llVars, tgVars, asVars>>

InitFrames ==
  /\ \E sample_rate \in FrameSampleRates, wanted \in FrameWantedSet :
       MultiToneGeneratorInit(sample_rate, wanted)
  /\ frames_generated_ = 0
  /\ frequencies_ = << >>
  /\ ppc = "idle"
  /\ play_state = "kCreated"
  /\ cap_state = "kCreated"
  /\ completed = 0
  /\ num_frames = 0
  /\ target_carrier = 0
  /\ frequencies = << >>
  /\ delay = 0
  /\ accum_confidence = 0
  /\ mf_c = 0
  /\ outcome = "none"
  /\ cap_after = 0
  /\ play_after = 0
  /\ CBIdle
  /\ LooptestIdle
  /\ IoIdle
  /\ MainIdle
  /\ CodecIdle
  /\ GfIdle
  /\ LpIdle
  /\ LlIdle
  /\ TgIdle
  /\ AsIdle

NextFrames ==
  \/ /\ \E format \in Formats, nchannels \in FrameChannels :
          \E active \in ActiveSets(nchannels),
             size \in BufSizes(format, nchannels) :
            GetFrames_Enter(format, nchannels, active, size)
     /\ UNCHANGED framesRest
  \/ GetFrames_Frame /\ UNCHANGED framesRest
  \/ GetFrames_Return /\ UNCHANGED framesRest
  \/ /\ \E call \in FrameResetCalls : Reset_Lock(call)
     /\ UNCHANGED <<framesRest, gfVars>>
  \/ Reset_Body /\ UNCHANGED <<framesRest, gfVars>>

SpecFrames == InitFrames /\ [][NextFrames]_vars

\* ------------------------------------- audiofuntest: main and client Init
\* the device calls of AlsaCaptureClient::Init and AlsaPlaybackClient::Init
\* whose failure makes Init fail: 1 snd_pcm_open, 2 hw_params_any,
\* 3 set_rate_resample, 4 set_access, 5 set_format, 6 set_channels,
\* 7 set_rate_near, 8 snd_pcm_hw_params, 9 snd_pcm_get_params
InitSteps == 9
ENOENT == 2
EINVAL == 22
\* what a device call may answer
InitAnswers == {-EINVAL, -ENOENT, 0}
\* the formats and channel counts ParseOptions may leave in the config
Configs ==
  {[format |-> f, channels |-> c] :
     f \in {"kPcmU8", "kPcmS16", "kPcmS24", "kPcmS32"}, c \in {1, 2}}

\* main: if (!ParseOptions(argc, argv, &config)) return 1; PrintConfig
main_ParseOptions ==
  /\ mpc = "parse"
  /\ \/ /\ mpc' = "exited"
        /\ exit_status' = 1
        /\ UNCHANGED <<config, init_step>>
     \/ /\ config' \in Configs
        /\ mpc' = "cap_init"
        /\ init_step' = 1
        /\ UNCHANGED exit_status
  /\ UNCHANGED <<cap_last_error_, play_last_error_, threads, loop_ret,
                 cap_state, play_state>>

\* LoopControl: one device call of capture_client.Init(...); Init keeps the
\* result of snd_pcm_open and snd_pcm_get_params in last_error_ and sets
\* kReady before step 9; if Init fails LoopControl returns 2
LoopControl_CaptureInit ==
  /\ mpc = "cap_init"
  /\ \E answer \in InitAnswers :
       /\ cap_last_error_' = IF init_step \in {1, InitSteps}
                               THEN answer ELSE cap_last_error_
       /\ IF answer < 0
            THEN /\ mpc' = "lc_returned"
                 /\ loop_ret' = 2
                 /\ UNCHANGED <<init_step, cap_state>>
            ELSE /\ mpc' = IF init_step = InitSteps THEN "play_init"
                                                     ELSE "cap_init"
                 /\ init_step' = IF init_step = InitSteps THEN 1
                                                          ELSE init_step + 1
                 /\ cap_state' = IF init_step >= InitSteps - 1
                                   THEN "kReady" ELSE cap_state
                 /\ UNCHANGED loop_ret
  /\ UNCHANGED <<config, play_last_error_, threads, exit_status, play_state>>

\* LoopControl: one device call of playback_client.Init(...); every result
\* is kept in last_error_; kReady is set after step 9; if Init fails
\* LoopControl returns 3
LoopControl_PlaybackInit ==
  /\ mpc = "play_init"
  /\ \E answer \in InitAnswers :
       /\ play_last_error_' = answer
       /\ IF answer < 0
            THEN /\ mpc' = "lc_returned"
                 /\ loop_ret' = 3
                 /\ UNCHANGED <<init_step, play_state>>
            ELSE /\ mpc' = IF init_step = InitSteps THEN "setup"
                                                     ELSE "play_init"
                 /\ init_step' = IF init_step = InitSteps THEN 0
                                                          ELSE init_step + 1
                 /\ play_state' = IF init_step = InitSteps
                                    THEN "kReady" ELSE play_state
                 /\ UNCHANGED loop_ret
  /\ UNCHANGED <<config, cap_last_error_, threads, exit_status, cap_state>>

\* LoopControl: generator, LoopParam, both states set to kReady, then the
\* two pthread_create calls
LoopControl_CreateThreads ==
  /\ mpc = "setup"
  /\ play_state' = "kReady"
  /\ cap_state' = "kReady"
  /\ threads' = 2
  /\ mpc' = "running"
  /\ UNCHANGED <<config, init_step, cap_last_error_, play_last_error_,
                 loop_ret, exit_status>>

\* LoopControl: the analysis loop ends, both states are set to kTerminated,
\* both threads are joined; return 0
LoopControl_Run ==
  /\ mpc = "running"
  /\ play_state' = "kTerminated"
  /\ cap_state' = "kTerminated"
  /\ loop_ret' = 0
  /\ mpc' = "lc_returned"
  /\ UNCHANGED <<config, init_step, cap_last_error_, play_last_error_,
                 threads, exit_status>>

\* main: LoopControl(config); return 0;
main_Return ==
  /\ mpc = "lc_returned"
  /\ exit_status' = 0
  /\ mpc' = "exited"
  /\ UNCHANGED <<config, init_step, cap_last_error_, play_last_error_,
                 threads, loop_ret, cap_state, play_state>>

\* ------------------------------------------ SpecMain: audiofuntest's main
mainRest == <<cbVars, ltVars, ppc, frames_generated_, frequencies_,
              completed, ctlVars, cap_after, play_after, genVars, ioVars,
              codecVars, gfVars, lpVars,
  llVars, tgVars, asVars>>

InitMain ==
  /\ mpc = "parse"
  /\ config = DefaultConfig
  /\ init_step = 0
  /\ cap_last_error_ = 0
  /\ play_last_error_ = 0
  /\ threads = 0
  /\ loop_ret = -1
  /\ exit_status = -1
  /\ CBIdle
  /\ LooptestIdle
  /\ LCIdle
  /\ GenIdle
  /\ IoIdle
  /\ CodecIdle
  /\ GfIdle
  /\ LpIdle
  /\ LlIdle
  /\ TgIdle
  /\ AsIdle

NextMain ==
  \/ main_ParseOptions /\ UNCHANGED mainRest
  \/ LoopControl_CaptureInit /\ UNCHANGED mainRest
  \/ LoopControl_PlaybackInit /\ UNCHANGED mainRest
  \/ LoopControl_CreateThreads /\ UNCHANGED mainRest
  \/ LoopControl_Run /\ UNCHANGED mainRest
  \/ main_Return /\ UNCHANGED mainRest

SpecMain == InitMain /\ [][NextMain]_vars

\* ------------------------------------------------- libaudiodev.c: pcm_io
\* frames per chunk (buffer_size * 8 / bits_per_frame)
chunk_size == 3
\* errno values
EAGAIN == 11
EPIPE == 32
EIO == 5
\* what snd_pcm_writei / snd_pcm_readi may answer to a request of n frames
DeviceAnswers(n) == {-EAGAIN, -EPIPE, -EIO} \cup (0 .. n)

\* a playback request shorter than a chunk is padded with silence
pcm_io_Entry ==
  /\ io_pc = "entry"
  /\ io_count' = IF direction = "playback" /\ io_count < chunk_size
                THEN chunk_size ELSE io_count
  /\ io_pc' = "loop"
  /\ UNCHANGED <<direction, result, io_completed>>

\* while (count > 0) ... return result
pcm_io_LoopCheck ==
  /\ io_pc = "loop"
  /\ io_pc' = IF io_count > 0 THEN "call" ELSE "returned"
  /\ UNCHANGED <<direction, io_count, result, io_completed>>

\* completed = snd_pcm_writei(...) or snd_pcm_readi(...)
pcm_io_Device ==
  /\ io_pc = "call"
  /\ \E answer \in DeviceAnswers(io_count) : io_completed' = answer
  /\ io_pc' = "check"
  /\ UNCHANGED <<direction, io_count, result>>

\* the four branches on completed: snd_pcm_wait; snd_pcm_prepare (exit on
\* failure); the I/O error message; the accounting of the frames done
pcm_io_Check ==
  /\ io_pc = "check"
  /\ IF io_completed = -EAGAIN
       THEN /\ io_pc' = "loop"
            /\ UNCHANGED <<io_count, result>>
       ELSE IF io_completed = -EPIPE
         THEN /\ \E res \in {-EIO, 0} :
                   io_pc' = IF res < 0 THEN "exited" ELSE "loop"
              /\ UNCHANGED <<io_count, result>>
         ELSE IF io_completed < 0
           THEN /\ io_pc' = "loop"
                /\ UNCHANGED <<io_count, result>>
           ELSE /\ result' = result + io_completed
                /\ io_count' = io_count - io_completed
                /\ io_pc' = "loop"
  /\ UNCHANGED <<direction, io_completed>>

\* ----------------------------------------------- SpecIO: one pcm_io call
ioRest == <<cbVars, ltVars, lcVars, genVars, mainVars, codecVars, gfVars,
           lpVars,
  llVars, tgVars, asVars>>

InitIO ==
  /\ direction \in {"playback", "capture"}
  /\ io_count \in 0 .. chunk_size
  /\ result = 0
  /\ io_completed = 0
  /\ io_pc = "entry"
  /\ CBIdle
  /\ LooptestIdle
  /\ LCIdle
  /\ GenIdle
  /\ MainIdle
  /\ CodecIdle
  /\ GfIdle
  /\ LpIdle
  /\ LlIdle
  /\ TgIdle
  /\ AsIdle

NextIO ==
  \/ pcm_io_Entry /\ UNCHANGED ioRest
  \/ pcm_io_LoopCheck /\ UNCHANGED ioRest
  \/ pcm_io_Device /\ UNCHANGED ioRest
  \/ pcm_io_Check /\ UNCHANGED ioRest

SpecIO == InitIO /\ [][NextIO]_vars

\* the thread inside pcm_io keeps running and the device answers every call
SpecIOFair == SpecIO /\ WF_vars(NextIO)

\* ------------------------------------------------- audiofuntest: LoopParam
\* LoopParam constructor defaults low_cutoff and hi_cutoff (Hz)
LowCutoff == 1600
HiCutoff == 10000
\* LoopControl: accumulated confidence that counts as a detection, in
\* tenths (3.0), and the number of analysed cells after which it gives up
ConfidenceThreshold == 30
TimeoutFrames == 15
\* frames per cell (config.fftsize) of the configurations explored; with
\* SampleRate they give 1, 2 and 3 carriers and an integral freq_resol
NumFramesSet == {32, 64, 80}
\* confidence of one analysed cell: <<is it NaN (the result of 0/0 on a
\* silent cell), its value in tenths>>
Confidences ==
  {<<TRUE, 0>>, <<FALSE, -10>>, <<FALSE, 0>>, <<FALSE, 15>>, <<FALSE, 30>>}
\* confidence > 0.0, which is false of a NaN
Positive(confidence) == ~confidence[1] /\ confidence[2] > 0
CeilDiv(a, b) == (a + b - 1) \div b
Min(a, b) == IF a < b THEN a ELSE b
\* freq_resol = 2.0 * SampRate / num_frames
freq_resol(n) == (2 * SampleRate) \div n
\* num_bin = num_frames / 4
num_bin(n) == n \div 4
\* bin_start = ceil(low_cutoff / freq_resol)
bin_start(n) == CeilDiv(LowCutoff * n, 2 * SampleRate)
\* bin_end = ceil(hi_cutoff / freq_resol); if (bin_end > num_bin) bin_end = num_bin
bin_end(n) == Min(CeilDiv(HiCutoff * n, 2 * SampleRate), num_bin(n))
\* carriers.resize(num_used_bin / 2)
NumCarriers(n) == (bin_end(n) - bin_start(n)) \div 2
\* carriers[i].center_bin = bin_start + 2 * i
center_bin(n, i) == bin_start(n) + 2 * i

\* the number of bins below and above a carrier's center bin that its
\* matched filter covers
lo_bandwidth == 3
hi_bandwidth == 3
\* a / b of two ints, b > 0: the quotient is truncated toward zero
TruncDiv(a, b) == IF a >= 0 THEN a \div b ELSE 0 - ((0 - a) \div b)
Max(a, b) == IF a > b THEN a ELSE b

\* the LoopParam constructor for a capture client of any rate and cell
\* size: the fields up to num_used_bin (freq_resol = 2.0 * SampRate /
\* num_frames stays inside the two ceil(cutoff / freq_resol))
LoopParamFields(rate, n) ==
  LET nb == n \div 4
      bs == CeilDiv(LowCutoff * n, 2 * rate)
      be == CeilDiv(HiCutoff * n, 2 * rate)
  IN  [num_frames |-> n, num_freq |-> n \div 2 + 1, num_bin |-> nb,
       bin_start |-> bs, bin_end |-> IF be > nb THEN nb ELSE be,
       num_used_bin |-> (IF be > nb THEN nb ELSE be) - bs,
       carriers |-> << >>, target_carrier |-> 0]

\* LoopParam::LoopParam: carriers.resize(num_used_bin / 2), whose elements
\* are value-initialized, then the center bins; a negative num_used_bin / 2
\* converts to a size above max_size() and resize throws
\* std::length_error, which nothing catches
LoopParam_Construct ==
  /\ lp_pc = "input"
  /\ LET fields == LoopParamFields(samp_rate, cell_num_frames)
         size == TruncDiv(fields.num_used_bin, 2)
     IN  IF size < 0
           THEN /\ parm' = fields
                /\ lp_pc' = "terminated"
           ELSE /\ parm' =
                     [fields EXCEPT !.carriers =
                        [i \in 1 .. size |->
                           [center_bin |-> fields.bin_start + 2 * (i - 1),
                            lo_bin |-> 0, hi_bin |-> 0]]]
                /\ lp_pc' = "constructed"
  /\ UNCHANGED <<samp_rate, cell_num_frames>>

\* EstimateFilter(parm): for every carrier InitMatchedFilter(low, hi, ...)
\* sets lo_bin and hi_bin
EstimateFilter ==
  /\ lp_pc = "constructed"
  /\ parm' =
       [parm EXCEPT !.carriers =
          [c \in 1 .. Len(parm.carriers) |->
             [parm.carriers[c] EXCEPT
                !.lo_bin = Max(parm.carriers[c].center_bin - lo_bandwidth, 0),
                !.hi_bin = Min(parm.carriers[c].center_bin + hi_bandwidth,
                               parm.num_bin - 1)]]]
  /\ lp_pc' = "estimated"
  /\ UNCHANGED <<samp_rate, cell_num_frames>>

\* ------------------------- SpecLP: a LoopParam and its matched filters
\* sample rates of the capture client and frames per cell explored
LpSampleRates == {2000, 8000, 44100, 64000}
LpNumFrames == {1, 2, 3, 4, 10, 16, 32, 64, 80, 128, 256}

lpRest == <<cbVars, ltVars, lcVars, genVars, ioVars, mainVars, codecVars,
            gfVars, llVars, tgVars, asVars>>

InitLP ==
  /\ samp_rate \in LpSampleRates
  /\ cell_num_frames \in LpNumFrames
  /\ parm = NoParm
  /\ lp_pc = "input"
  /\ CBIdle
  /\ LooptestIdle
  /\ LCIdle
  /\ GenIdle
  /\ IoIdle
  /\ MainIdle
  /\ CodecIdle
  /\ GfIdle
  /\ LlIdle
  /\ TgIdle
  /\ AsIdle

NextLP ==
  \/ LoopParam_Construct /\ UNCHANGED lpRest
  \/ EstimateFilter /\ UNCHANGED lpRest

SpecLP == InitLP /\ [][NextLP]_vars

\* LoopParam::SetTargetCarrier(c), for 0 <= c < carriers.size()
SetTargetCarrier(c) ==
  /\ target_carrier' = c
  /\ frequencies' = << center_bin(num_frames, c) * freq_resol(num_frames) >>

\* MultiToneGenerator::Reset(frequencies, reset_timer = false)
Reset(freqs) ==
  /\ frequencies_' = freqs
  /\ UNCHANGED frames_generated_

\* -------------------------------------------- AlsaCaptureClient::Capture
\* state check and the two snd_pcm_prepare calls before the loop
Capture_Entry ==
  /\ wpc = "entry"
  /\ \E prepared \in BOOLEAN :
       wpc' = IF cap_state = "kReady" /\ prepared THEN "loop" ELSE "exited"
  /\ UNCHANGED <<cbData, rpc, lcVars>>

\* variant of the Capture loop that goes on unless the state is kFailed
Capture_LoopCheck_UntilFailed ==
  /\ wpc = "loop"
  /\ wpc' = IF cap_state # "kFailed" THEN "call" ELSE "stop"
  /\ UNCHANGED <<cbData, rpc, lcVars>>

\* while (state() == kReady) { snd_pcm_wait(...)
Capture_LoopCheck ==
  /\ wpc = "loop"
  /\ wpc' = IF cap_state = "kReady" THEN "call" ELSE "stop"
  /\ UNCHANGED <<cbData, rpc, lcVars>>

\* cell_to_write = circular_buffer_->LockCellToWrite()
Capture_Lock ==
  /\ LockCellToWrite_Call
  /\ cap_after' = IF cap_state = "kTerminated" THEN Min(cap_after + 1, 2)
                                             ELSE cap_after
  /\ UNCHANGED <<play_state, cap_state, ppc, frames_generated_, frequencies_,
                 completed, ctlVars, play_after>>

\* completed = snd_pcm_readi(handle, cell_to_write, num_frames): the frames
\* read, or a negative error code that leaves the cell as it was
Capture_Read ==
  /\ \E res \in {-5, num_frames} :
       /\ completed' = res
       /\ FillCell(IF res < 0 THEN cells[wcell] ELSE 1)
  /\ UNCHANGED <<writeSeq, play_state, cap_state, ppc, frames_generated_,
                 frequencies_, ctlVars, cap_after, play_after>>

\* circular_buffer_->UnlockCellToWrite(); if (completed < 0) return 4;
Capture_Unlock ==
  /\ UnlockCellToWrite_Release(IF completed < 0 THEN "exited" ELSE "loop")
  /\ UNCHANGED lcVars

\* snd_pcm_drop(pcm_capture_handle_); return 0;
Capture_Stop ==
  /\ wpc = "stop"
  /\ wpc' = "exited"
  /\ UNCHANGED <<cbData, rpc, lcVars>>

\* ------------------------------------------ AlsaPlaybackClient::PlayTones
\* state check and snd_pcm_prepare before the main loop
PlayTones_Entry ==
  /\ ppc = "entry"
  /\ \E prepared \in BOOLEAN :
       ppc' = IF play_state = "kReady" /\ prepared THEN "loop" ELSE "exited"
  /\ UNCHANGED <<cbVars, play_state, cap_state, frames_generated_,
                 frequencies_, completed, ctlVars, cap_after, play_after>>

\* while (state() == kReady && generator_->HasMoreFrames())
PlayTones_LoopCheck ==
  /\ ppc = "loop"
  /\ ppc' = IF play_state = "kReady" /\ HasMoreFrames THEN "gen" ELSE "drain"
  /\ UNCHANGED <<cbVars, play_state, cap_state, frames_generated_,
                 frequencies_, completed, ctlVars, cap_after, play_after>>

\* MultiToneGenerator::GetFrames on a chunk of num_frames_ frames: writes
\* frames until the chunk is full or HasMoreFrames() is false
GetFrames ==
  frames_generated_' =
    frames_generated_ + GetFramesLoop(0, num_frames, frames_generated_)

\* written = generator_->GetFrames(...); memset of the rest of the chunk
PlayTones_GetFrames ==
  /\ ppc = "gen"
  /\ GetFrames
  /\ play_after' = IF play_state # "kReady" THEN Min(play_after + 1, 2)
                                            ELSE play_after
  /\ ppc' = "write"
  /\ UNCHANGED <<cbVars, play_state, cap_state, frequencies_, completed,
                 ctlVars, cap_after>>

\* last_error_ = snd_pcm_writei(...); if (last_error_ < 0) break;
PlayTones_Write ==
  /\ ppc = "write"
  /\ \E failed \in BOOLEAN : ppc' = IF failed THEN "drain" ELSE "loop"
  /\ UNCHANGED <<cbVars, play_state, cap_state, frames_generated_,
                 frequencies_, completed, ctlVars, cap_after, play_after>>

\* the silent chunks after the loop, then set_state(kComplete)
PlayTones_Drain ==
  /\ ppc = "drain"
  /\ play_state' = "kComplete"
  /\ ppc' = "drop"
  /\ UNCHANGED <<cbVars, cap_state, frames_generated_, frequencies_,
                 completed, ctlVars, cap_after, play_after>>

\* snd_pcm_drop(pcm_out_handle_); return
PlayTones_Exit ==
  /\ ppc = "drop"
  /\ ppc' = "exited"
  /\ UNCHANGED <<cbVars, play_state, cap_state, frames_generated_,
                 frequencies_, completed, ctlVars, cap_after, play_after>>

\* --------------------------------------------------------- LoopControl
\* state after capture_client.Init(.., 2, fftsize) and playback_client.Init
\* succeeded, the LoopParam was built and both threads were created, the
\* clients being in the states ps and cs
ThreadsCreated(n, ps, cs) ==
  /\ CircularBufferInit(2)
  /\ wpc = "entry"
  /\ play_state = ps
  /\ cap_state = cs
  /\ ppc = "entry"
  /\ frames_generated_ = 0
  /\ frequencies_ = << >>
  /\ completed = 0
  /\ num_frames = n
  /\ target_carrier = 0
  /\ frequencies = << >>
  /\ delay = 0
  /\ accum_confidence = 0
  /\ mf_c = 0
  /\ outcome = "none"
  /\ cap_after = 0
  /\ play_after = 0

\* loop_parm.SetTargetCarrier(rand() % carriers.size());
\* tone_generator.Reset(loop_parm.frequencies);
LoopControl_Seed ==
  /\ rpc = "seed"
  /\ \E c \in 0 .. (NumCarriers(num_frames) - 1) :
       /\ SetTargetCarrier(c)
       /\ Reset(frequencies')
  /\ rpc' = "loopcheck"
  /\ UNCHANGED <<cbData, wpc, play_state, cap_state, ppc, completed,
                 num_frames, delay, accum_confidence, mf_c, outcome,
                 cap_after, play_after>>

\* while (playback_client.state() == kReady)
LoopControl_LoopCheck ==
  /\ rpc = "loopcheck"
  /\ rpc' = IF play_state = "kReady" THEN "call" ELSE "setplay"
  /\ UNCHANGED <<cbData, wpc, lcVars>>

\* variant of the decision that times out with `delay <= 15`
LoopControl_Analyse_OffByOne ==
  /\ rpc = "analyse"
  /\ \E confidence \in Confidences :
       LET accum == IF Positive(confidence)
                      THEN accum_confidence + confidence[2]
                      ELSE accum_confidence
       IN  /\ accum_confidence' = accum
           /\ delay' = delay + 1
           /\ IF accum >= ConfidenceThreshold
                THEN /\ outcome' = "O"
                     /\ rpc' = "record"
                ELSE IF delay + 1 <= TimeoutFrames
                  THEN /\ UNCHANGED outcome
                       /\ rpc' = "loopcheck"
                  ELSE /\ outcome' = "X"
                       /\ rpc' = "record"
  /\ UNCHANGED <<cbData, wpc, play_state, cap_state, ppc, frames_generated_,
                 frequencies_, completed, num_frames, target_carrier,
                 frequencies, mf_c, cap_after, play_after>>

\* FFT of the cell, confidence of the target carrier, ++delay and the
\* success / delaying / time out decision
LoopControl_Analyse ==
  /\ rpc = "analyse"
  /\ \E confidence \in Confidences :
       LET accum == IF Positive(confidence)
                      THEN accum_confidence + confidence[2]
                      ELSE accum_confidence
       IN  /\ accum_confidence' = accum
           /\ delay' = delay + 1
           /\ IF accum >= ConfidenceThreshold
                THEN /\ outcome' = "O"
                     /\ rpc' = "record"
                ELSE IF delay + 1 < TimeoutFrames
                  THEN /\ UNCHANGED outcome
                       /\ rpc' = "loopcheck"
                  ELSE /\ outcome' = "X"
                       /\ rpc' = "record"
  /\ UNCHANGED <<cbData, wpc, play_state, cap_state, ppc, frames_generated_,
                 frequencies_, completed, num_frames, target_carrier,
                 frequencies, mf_c, cap_after, play_after>>

\* the fprintf of the attempt; delay = 0; accum_confidence = 0.0;
LoopControl_Record ==
  /\ rpc = "record"
  /\ delay' = 0
  /\ accum_confidence' = 0
  /\ rpc' = "draw"
  /\ UNCHANGED <<cbData, wpc, play_state, cap_state, ppc, frames_generated_,
                 frequencies_, completed, num_frames, target_carrier,
                 frequencies, mf_c, outcome, cap_after, play_after>>

\* variant of the carrier selection that keeps the first draw
LoopControl_NextCarrier_NoRedraw ==
  /\ rpc = "draw"
  /\ \E new_target_carrier \in 0 .. (NumCarriers(num_frames) - 1) :
       /\ SetTargetCarrier(new_target_carrier)
       /\ Reset(frequencies')
       /\ rpc' = "loopcheck"
  /\ UNCHANGED <<cbData, wpc, play_state, cap_state, ppc, completed,
                 num_frames, delay, accum_confidence, mf_c, outcome,
                 cap_after, play_after>>

\* do { new_target_carrier = rand() % carriers.size(); } while (same);
\* loop_parm.SetTargetCarrier(new_target_carrier); tone_generator.Reset(...)
LoopControl_NextCarrier ==
  /\ rpc = "draw"
  /\ \E new_target_carrier \in 0 .. (NumCarriers(num_frames) - 1) :
       IF new_target_carrier = target_carrier
         THEN UNCHANGED <<rpc, target_carrier, frequencies, frequencies_,
                          frames_generated_>>
         ELSE /\ SetTargetCarrier(new_target_carrier)
              /\ Reset(frequencies')
              /\ rpc' = "loopcheck"
  /\ UNCHANGED <<cbData, wpc, play_state, cap_state, ppc, completed,
                 num_frames, delay, accum_confidence, mf_c, outcome,
                 cap_after, play_after>>

\* playback_client.set_state(AlsaPlaybackClient::kTerminated);
Controller_SetPlayTerminated ==
  /\ rpc = "setplay"
  /\ play_state' = "kTerminated"
  /\ rpc' = "setcap"
  /\ UNCHANGED <<cbData, wpc, cap_state, ppc, frames_generated_,
                 frequencies_, completed, ctlVars, cap_after, play_after>>

\* capture_client.set_state(AlsaCaptureClient::kTerminated);
Controller_SetCapTerminated ==
  /\ rpc = "setcap"
  /\ cap_state' = "kTerminated"
  /\ rpc' = "joinplay"
  /\ UNCHANGED <<cbData, wpc, play_state, ppc, frames_generated_,
                 frequencies_, completed, ctlVars, cap_after, play_after>>

\* pthread_join(playback_thread, &status);
Controller_JoinPlayback ==
  /\ rpc = "joinplay"
  /\ ppc = "exited"
  /\ rpc' = "joincap"
  /\ UNCHANGED <<cbData, wpc, lcVars>>

\* variant of the shutdown that does not join the capture thread
Controller_JoinCapture_NoWait ==
  /\ rpc = "joincap"
  /\ rpc' = "returned"
  /\ UNCHANGED <<cbData, wpc, lcVars>>

\* pthread_join(capture_thread, &status); return
Controller_JoinCapture ==
  /\ rpc = "joincap"
  /\ wpc = "exited"
  /\ rpc' = "returned"
  /\ UNCHANGED <<cbData, wpc, lcVars>>

\* -------------------------------------------------------- MeasureFilter
\* for (c = 0; c < carriers.size(); ++c) {
\*   parm->frequencies.clear(); gen->Reset(parm->frequencies);
MeasureFilter_Loop ==
  /\ rpc = "mf_loop"
  /\ IF mf_c < NumCarriers(num_frames)
       THEN /\ frequencies' = << >>
            /\ Reset(frequencies')
            /\ rpc' = "mf_set"
       ELSE /\ rpc' = "setplay"
            /\ UNCHANGED <<frequencies, frequencies_, frames_generated_>>
  /\ UNCHANGED <<cbData, wpc, play_state, cap_state, ppc, completed,
                 num_frames, target_carrier, delay, accum_confidence, mf_c,
                 outcome, cap_after, play_after>>

\*   parm->SetTargetCarrier(c); gen->Reset(parm->frequencies); usleep(300000);
MeasureFilter_SetCarrier ==
  /\ rpc = "mf_set"
  /\ SetTargetCarrier(mf_c)
  /\ Reset(frequencies')
  /\ rpc' = "call"
  /\ UNCHANGED <<cbData, wpc, play_state, cap_state, ppc, completed,
                 num_frames, delay, accum_confidence, mf_c, outcome,
                 cap_after, play_after>>

\*   the FFT of the cell, then ++c
MeasureFilter_Next ==
  /\ rpc = "mf_next"
  /\ mf_c' = mf_c + 1
  /\ rpc' = "mf_loop"
  /\ UNCHANGED <<cbData, wpc, play_state, cap_state, ppc, frames_generated_,
                 frequencies_, completed, num_frames, target_carrier,
                 frequencies, delay, accum_confidence, outcome, cap_after,
                 play_after>>

\* ----------------------- SpecLC: LoopControl with its two worker threads
\* LoopControl sets both states to kReady before it creates the threads
InitLC ==
  /\ \E n \in NumFramesSet : ThreadsCreated(n, "kReady", "kReady")
  /\ rpc = "seed"
  /\ LooptestIdle
  /\ AuxIdle

WorkerThreads ==
  \/ Capture_Entry /\ UNCHANGED <<ltVars, auxVars>>
  \/ Capture_LoopCheck /\ UNCHANGED <<ltVars, auxVars>>
  \/ Capture_Lock /\ UNCHANGED <<ltVars, auxVars>>
  \/ LockCellToWrite_Acquire /\ UNCHANGED <<ltVars, lcVars, auxVars>>
  \/ Capture_Read /\ UNCHANGED <<ltVars, auxVars>>
  \/ UnlockCellToWrite_Advance /\ UNCHANGED <<ltVars, lcVars, auxVars>>
  \/ Capture_Unlock /\ UNCHANGED <<ltVars, auxVars>>
  \/ Capture_Stop /\ UNCHANGED <<ltVars, auxVars>>
  \/ PlayTones_Entry /\ UNCHANGED <<ltVars, auxVars>>
  \/ PlayTones_LoopCheck /\ UNCHANGED <<ltVars, auxVars>>
  \/ PlayTones_GetFrames /\ UNCHANGED <<ltVars, auxVars>>
  \/ PlayTones_Write /\ UNCHANGED <<ltVars, auxVars>>
  \/ PlayTones_Drain /\ UNCHANGED <<ltVars, auxVars>>
  \/ PlayTones_Exit /\ UNCHANGED <<ltVars, auxVars>>

ReadCell(next) ==
  \/ LockCellToRead_Call /\ UNCHANGED <<ltVars, lcVars, auxVars>>
  \/ LockCellToRead_Acquire /\ UNCHANGED <<ltVars, lcVars, auxVars>>
  \/ LockCellToRead_Check(FALSE) /\ UNCHANGED <<ltVars, lcVars, auxVars>>
  \/ CondWait_Spurious /\ UNCHANGED <<ltVars, lcVars, auxVars>>
  \/ UnlockCellToRead_Release /\ UNCHANGED <<ltVars, lcVars, auxVars>>
  \/ UnlockCellToRead_Advance(next) /\ UNCHANGED <<ltVars, lcVars, auxVars>>

Shutdown ==
  \/ Controller_SetPlayTerminated /\ UNCHANGED <<ltVars, auxVars>>
  \/ Controller_SetCapTerminated /\ UNCHANGED <<ltVars, auxVars>>
  \/ Controller_JoinPlayback /\ UNCHANGED <<ltVars, auxVars>>
  \/ Controller_JoinCapture /\ UNCHANGED <<ltVars, auxVars>>

NextLC ==
  \/ WorkerThreads
  \/ ReadCell("analyse")
  \/ LoopControl_Seed /\ UNCHANGED <<ltVars, auxVars>>
  \/ LoopControl_LoopCheck /\ UNCHANGED <<ltVars, auxVars>>
  \/ LoopControl_Analyse /\ UNCHANGED <<ltVars, auxVars>>
  \/ LoopControl_Record /\ UNCHANGED <<ltVars, auxVars>>
  \/ LoopControl_NextCarrier /\ UNCHANGED <<ltVars, auxVars>>
  \/ Shutdown

SpecLC == InitLC /\ [][NextLC]_vars

\* ------------- SpecLCLive: LoopControl and its threads, each one fair
\* the steps of the capture thread
CaptureThread ==
  \/ Capture_Entry /\ UNCHANGED <<ltVars, auxVars>>
  \/ Capture_LoopCheck /\ UNCHANGED <<ltVars, auxVars>>
  \/ Capture_Lock /\ UNCHANGED <<ltVars, auxVars>>
  \/ LockCellToWrite_Acquire /\ UNCHANGED <<ltVars, lcVars, auxVars>>
  \/ Capture_Read /\ UNCHANGED <<ltVars, auxVars>>
  \/ UnlockCellToWrite_Advance /\ UNCHANGED <<ltVars, lcVars, auxVars>>
  \/ Capture_Unlock /\ UNCHANGED <<ltVars, auxVars>>
  \/ Capture_Stop /\ UNCHANGED <<ltVars, auxVars>>

\* the steps of the playback thread
PlaybackThread ==
  \/ PlayTones_Entry /\ UNCHANGED <<ltVars, auxVars>>
  \/ PlayTones_LoopCheck /\ UNCHANGED <<ltVars, auxVars>>
  \/ PlayTones_GetFrames /\ UNCHANGED <<ltVars, auxVars>>
  \/ PlayTones_Write /\ UNCHANGED <<ltVars, auxVars>>
  \/ PlayTones_Drain /\ UNCHANGED <<ltVars, auxVars>>
  \/ PlayTones_Exit /\ UNCHANGED <<ltVars, auxVars>>

\* the steps of the controller thread, a spurious wakeup apart
ControllerThread ==
  \/ LockCellToRead_Call /\ UNCHANGED <<ltVars, lcVars, auxVars>>
  \/ LockCellToRead_Acquire /\ UNCHANGED <<ltVars, lcVars, auxVars>>
  \/ LockCellToRead_Check(FALSE) /\ UNCHANGED <<ltVars, lcVars, auxVars>>
  \/ UnlockCellToRead_Release /\ UNCHANGED <<ltVars, lcVars, auxVars>>
  \/ UnlockCellToRead_Advance("analyse") /\ UNCHANGED <<ltVars, lcVars, auxVars>>
  \/ LoopControl_Seed /\ UNCHANGED <<ltVars, auxVars>>
  \/ LoopControl_LoopCheck /\ UNCHANGED <<ltVars, auxVars>>
  \/ LoopControl_Analyse /\ UNCHANGED <<ltVars, auxVars>>
  \/ LoopControl_Record /\ UNCHANGED <<ltVars, auxVars>>
  \/ LoopControl_NextCarrier /\ UNCHANGED <<ltVars, auxVars>>
  \/ Shutdown

\* frames per cell of the run explored
LiveNumFrames == {64}

InitLCLive ==
  /\ \E n \in LiveNumFrames : ThreadsCreated(n, "kReady", "kReady")
  /\ rpc = "seed"
  /\ LooptestIdle
  /\ AuxIdle

NextLCLive ==
  \/ CaptureThread
  \/ PlaybackThread
  \/ ControllerThread
  \/ CondWait_Spurious /\ UNCHANGED <<ltVars, lcVars, auxVars>>

\* a thread that can step again and again does step (a mutex that keeps
\* being released is granted to the thread waiting for it)
SpecLCLive ==
  /\ InitLCLive
  /\ [][NextLCLive]_vars
  /\ SF_vars(CaptureThread)
  /\ SF_vars(PlaybackThread)
  /\ SF_vars(ControllerThread)

\* ------------------- SpecMF: MeasureFilter with its two worker threads
\* MeasureFilter leaves the states as its caller set them
InitMF ==
  /\ \E n \in NumFramesSet, ps \in {"kCreated", "kReady"},
        cs \in {"kCreated", "kReady"} : ThreadsCreated(n, ps, cs)
  /\ rpc = "mf_loop"
  /\ LooptestIdle
  /\ AuxIdle

NextMF ==
  \/ WorkerThreads
  \/ ReadCell("mf_next")
  \/ MeasureFilter_Loop /\ UNCHANGED <<ltVars, auxVars>>
  \/ MeasureFilter_SetCarrier /\ UNCHANGED <<ltVars, auxVars>>
  \/ MeasureFilter_Next /\ UNCHANGED <<ltVars, auxVars>>
  \/ Shutdown

SpecMF == InitMF /\ [][NextMF]_vars

\* ---------------------------------------------------- loopback_latency.c
CAPTURE_MORE_COUNT == 50
PLAYBACK_COUNT == 50
PLAYBACK_SILENT_COUNT == 50
PLAYBACK_TIMEOUT_COUNT == 100

\* what the other group of loopback_latency.c and the rest of the state
\* are left as by an ALSA step
alsaRest == <<cbVars, ltVars, lcVars, genVars, ioVars, mainVars, codecVars,
              gfVars, lpVars, tgVars, asVars, crasOnly>>

\* exit(1): the process ends, and both threads with it
alsa_Exit ==
  /\ aplay_pc' = "exited"
  /\ acap_pc' = "exited"

\* alsa_play: one turn of the loop that writes PLAYBACK_SILENT_COUNT
\* periods of the zeroed play_buf; a short or failed snd_pcm_writei is
\* exit(1)
alsa_play_Silent ==
  /\ aplay_pc = "silent"
  /\ \E written_all \in BOOLEAN :
       IF written_all
         THEN /\ num_buffers' = num_buffers + 1
              /\ aplay_pc' = IF num_buffers + 1 < PLAYBACK_SILENT_COUNT
                               THEN "silent" ELSE "sine"
              /\ UNCHANGED acap_pc
         ELSE /\ alsa_Exit
              /\ UNCHANGED num_buffers
  /\ UNCHANGED <<sine_started, terminate_capture, latency_test_mutex,
                 ll_calls, ll_stdout, terminate_playback, capture_count,
                 sine_start_tv, cap_time>>

\* alsa_play: generate_sine, snd_pcm_delay, gettimeofday(&sine_start_tv),
\* num_buffers = 0
alsa_play_Sine ==
  /\ aplay_pc = "sine"
  /\ ll_calls' = ll_calls + 1
  /\ sine_start_tv' = ll_calls + 1
  /\ num_buffers' = 0
  /\ aplay_pc' = "loop"
  /\ UNCHANGED <<sine_started, terminate_capture, latency_test_mutex,
                 ll_stdout, terminate_playback, capture_count, acap_pc,
                 cap_time>>

\* alsa_play: while (!terminate_playback && num_buffers < PLAYBACK_COUNT)
\* { avail_frames = snd_pcm_avail(handle); if (avail_frames >= period_size)
alsa_play_LoopCheck ==
  /\ aplay_pc = "loop"
  /\ IF ~terminate_playback /\ num_buffers < PLAYBACK_COUNT
       THEN \E room \in BOOLEAN : aplay_pc' = IF room THEN "lock" ELSE "loop"
       ELSE aplay_pc' = "after"
  /\ UNCHANGED <<sine_started, terminate_capture, latency_test_mutex,
                 ll_calls, ll_stdout, terminate_playback, capture_count,
                 sine_start_tv, num_buffers, acap_pc, cap_time>>

\* alsa_play: pthread_mutex_lock; if (!sine_started) { sine_started = 1;
\* pthread_cond_signal(&sine_start); } pthread_mutex_unlock
alsa_play_Signal ==
  /\ aplay_pc = "lock"
  /\ latency_test_mutex = "none"
  /\ sine_started' = TRUE
  /\ acap_pc' = IF ~sine_started /\ acap_pc = "waiting" THEN "woken"
                                                       ELSE acap_pc
  /\ aplay_pc' = "write"
  /\ UNCHANGED <<terminate_capture, latency_test_mutex, ll_calls, ll_stdout,
                 terminate_playback, capture_count, sine_start_tv,
                 num_buffers, cap_time>>

\* alsa_play: snd_pcm_writei of the sine period (a failure is reported and
\* ignored); num_buffers++
alsa_play_Write ==
  /\ aplay_pc = "write"
  /\ num_buffers' = num_buffers + 1
  /\ aplay_pc' = "loop"
  /\ UNCHANGED <<sine_started, terminate_capture, latency_test_mutex,
                 ll_calls, ll_stdout, terminate_playback, capture_count,
                 sine_start_tv, acap_pc, cap_time>>

\* alsa_play: terminate_playback = 1; if (num_buffers == PLAYBACK_COUNT)
\* "Audio not detected."; return
alsa_play_After ==
  /\ aplay_pc = "after"
  /\ terminate_playback' = TRUE
  /\ ll_stdout' = IF num_buffers = PLAYBACK_COUNT
                    THEN Append(ll_stdout, "Audio not detected.")
                    ELSE ll_stdout
  /\ aplay_pc' = "done"
  /\ UNCHANGED <<sine_started, terminate_capture, latency_test_mutex,
                 ll_calls, capture_count, sine_start_tv, num_buffers,
                 acap_pc, cap_time>>

\* alsa_capture: pthread_mutex_lock(&latency_test_mutex), first or on
\* return from pthread_cond_wait
alsa_capture_Lock ==
  /\ acap_pc \in {"start", "woken"}
  /\ latency_test_mutex = "none"
  /\ latency_test_mutex' = "capture"
  /\ acap_pc' = "check"
  /\ UNCHANGED <<sine_started, terminate_capture, ll_calls, ll_stdout,
                 terminate_playback, capture_count, sine_start_tv, aplay_pc,
                 num_buffers, cap_time>>

\* variant of alsa_capture that does not wait for sine_started
alsa_capture_WaitSine_NoWait ==
  /\ acap_pc = "check"
  /\ acap_pc' = "pcm_start"
  /\ latency_test_mutex' = "none"
  /\ UNCHANGED <<sine_started, terminate_capture, ll_calls, ll_stdout,
                 terminate_playback, capture_count, sine_start_tv, aplay_pc,
                 num_buffers, cap_time>>

\* alsa_capture: while (!sine_started) pthread_cond_wait(&sine_start,
\* &latency_test_mutex); pthread_mutex_unlock
alsa_capture_WaitSine ==
  /\ acap_pc = "check"
  /\ acap_pc' = IF sine_started THEN "pcm_start" ELSE "waiting"
  /\ latency_test_mutex' = "none"
  /\ UNCHANGED <<sine_started, terminate_capture, ll_calls, ll_stdout,
                 terminate_playback, capture_count, sine_start_tv, aplay_pc,
                 num_buffers, cap_time>>

\* pthread_cond_wait(&sine_start, ...) returns without a signal
alsa_capture_Spurious ==
  /\ acap_pc = "waiting"
  /\ acap_pc' = "woken"
  /\ UNCHANGED <<sine_started, terminate_capture, latency_test_mutex,
                 ll_calls, ll_stdout, terminate_playback, capture_count,
                 sine_start_tv, aplay_pc, num_buffers, cap_time>>

\* alsa_capture: snd_pcm_start(capture_handle), exit(1) when it fails
alsa_capture_Start ==
  /\ acap_pc = "pcm_start"
  /\ \E started \in BOOLEAN :
       IF started THEN /\ acap_pc' = "loop"
                       /\ UNCHANGED aplay_pc
                  ELSE alsa_Exit
  /\ UNCHANGED <<sine_started, terminate_capture, latency_test_mutex,
                 ll_calls, ll_stdout, terminate_playback, capture_count,
                 sine_start_tv, num_buffers, cap_time>>

\* alsa_capture: while (!terminate_capture)
alsa_capture_LoopCheck ==
  /\ acap_pc = "loop"
  /\ acap_pc' = IF terminate_capture THEN "done" ELSE "capture"
  /\ UNCHANGED <<sine_started, terminate_capture, latency_test_mutex,
                 ll_calls, ll_stdout, terminate_playback, capture_count,
                 sine_start_tv, aplay_pc, num_buffers, cap_time>>

\* alsa_capture: the loop body. capture_some reads nothing (no frames
\* available), reads a quiet or a noisy buffer, or exits on a failed
\* snd_pcm_readi. On noise: gettimeofday(&cap_time), the latency lines,
\* terminate_playback = terminate_capture = 1. Otherwise:
\* if (terminate_playback && capture_count++ < CAPTURE_MORE_COUNT)
\*   terminate_capture = 1
alsa_capture_Body ==
  /\ acap_pc = "capture"
  /\ \E captured \in {"nothing", "quiet", "noise", "failed"} :
       IF captured = "failed"
         THEN /\ alsa_Exit
              /\ UNCHANGED <<ll_calls, cap_time, ll_stdout,
                             terminate_playback, terminate_capture,
                             capture_count>>
       ELSE IF captured = "noise"
         THEN /\ ll_calls' = ll_calls + 1
              /\ cap_time' = ll_calls + 1
              /\ ll_stdout' = Append(ll_stdout, "Measured Latency")
              /\ terminate_playback' = TRUE
              /\ terminate_capture' = TRUE
              /\ acap_pc' = "loop"
              /\ UNCHANGED <<capture_count, aplay_pc>>
         ELSE /\ IF terminate_playback
                   THEN /\ capture_count' = capture_count + 1
                        /\ terminate_capture' =
                             (capture_count < CAPTURE_MORE_COUNT
                                \/ terminate_capture)
                   ELSE UNCHANGED <<capture_count, terminate_capture>>
              /\ acap_pc' = "loop"
              /\ UNCHANGED <<ll_calls, cap_time, ll_stdout,
                             terminate_playback, aplay_pc>>
  /\ UNCHANGED <<sine_started, latency_test_mutex, sine_start_tv,
                 num_buffers>>

\* ------------- SpecAlsa: alsa_test_latency's two threads
\* pthread_create of alsa_play and alsa_capture
InitAlsa ==
  /\ LatencyGlobals
  /\ aplay_pc = "silent"
  /\ acap_pc = "start"
  /\ cplay_pc = "none"
  /\ ccap_pc = "none"
  /\ ctest_pc = "none"
  /\ CBIdle
  /\ LooptestIdle
  /\ LCIdle
  /\ GenIdle /\ IoIdle /\ MainIdle /\ CodecIdle /\ GfIdle /\ LpIdle
  /\ TgIdle /\ AsIdle

NextAlsa ==
  \/ alsa_play_Silent /\ UNCHANGED alsaRest
  \/ alsa_play_Sine /\ UNCHANGED alsaRest
  \/ alsa_play_LoopCheck /\ UNCHANGED alsaRest
  \/ alsa_play_Signal /\ UNCHANGED alsaRest
  \/ alsa_play_Write /\ UNCHANGED alsaRest
  \/ alsa_play_After /\ UNCHANGED alsaRest
  \/ alsa_capture_Lock /\ UNCHANGED alsaRest
  \/ alsa_capture_WaitSine /\ UNCHANGED alsaRest
  \/ alsa_capture_Spurious /\ UNCHANGED alsaRest
  \/ alsa_capture_Start /\ UNCHANGED alsaRest
  \/ alsa_capture_LoopCheck /\ UNCHANGED alsaRest
  \/ alsa_capture_Body /\ UNCHANGED alsaRest

SpecAlsa == InitAlsa /\ [][NextAlsa]_vars

\* ------------------------------------------- loopback_latency.c, CRAS path
\* playback callbacks the CRAS client delivers before the exploration stops
MaxPlaybackCallbacks == 103

crasRest == <<cbVars, ltVars, lcVars, genVars, ioVars, mainVars, codecVars,
              gfVars, lpVars, tgVars, asVars, alsaOnly>>

\* pthread_cond_signal(&terminate_test): cras_test_latency, if it waits,
\* is woken
TestSignalled == IF ctest_pc = "waiting" THEN "woken" ELSE ctest_pc

\* variant of cras_play_tone whose timeout branch sets terminate_capture
\* without pthread_cond_signal(&terminate_test)
cras_play_tone_Enter_NoSignal ==
  /\ cplay_pc = "idle"
  /\ ctest_pc # "stopped"
  /\ playback_count < MaxPlaybackCallbacks
  /\ IF playback_count < PLAYBACK_SILENT_COUNT
       THEN /\ playback_count' = playback_count + 1
            /\ UNCHANGED <<cplay_pc, terminate_capture, ctest_pc>>
       ELSE IF playback_count > PLAYBACK_TIMEOUT_COUNT
         THEN /\ latency_test_mutex = "none"
              /\ terminate_capture' = TRUE
              /\ playback_count' = playback_count + 1
              /\ UNCHANGED <<cplay_pc, ctest_pc>>
         ELSE /\ cplay_pc' = "sine"
              /\ UNCHANGED <<playback_count, terminate_capture, ctest_pc>>
  /\ UNCHANGED <<sine_started, latency_test_mutex, ll_calls, ll_stdout,
                 cras_play_time, cras_cap_time, ccap_pc>>

\* cras_play_tone is called: the branch on playback_count. Below
\* PLAYBACK_SILENT_COUNT: memset of zeros, playback_count++. Above
\* PLAYBACK_TIMEOUT_COUNT: terminate_capture = 1 and the signal, under
\* latency_test_mutex, playback_count++. Otherwise generate_sine.
cras_play_tone_Enter ==
  /\ cplay_pc = "idle"
  /\ ctest_pc # "stopped"
  /\ playback_count < MaxPlaybackCallbacks
  /\ IF playback_count < PLAYBACK_SILENT_COUNT
       THEN /\ playback_count' = playback_count + 1
            /\ UNCHANGED <<cplay_pc, terminate_capture, ctest_pc>>
       ELSE IF playback_count > PLAYBACK_TIMEOUT_COUNT
         THEN /\ latency_test_mutex = "none"
              /\ terminate_capture' = TRUE
              /\ ctest_pc' = TestSignalled
              /\ playback_count' = playback_count + 1
              /\ UNCHANGED cplay_pc
         ELSE /\ cplay_pc' = "sine"
              /\ UNCHANGED <<playback_count, terminate_capture, ctest_pc>>
  /\ UNCHANGED <<sine_started, latency_test_mutex, ll_calls, ll_stdout,
                 cras_play_time, cras_cap_time, ccap_pc>>

\* cras_play_tone after generate_sine: if (!sine_started) sine_started = 1;
\* when it is set already, playback_count++ and return
cras_play_tone_Started ==
  /\ cplay_pc = "sine"
  /\ IF sine_started
       THEN /\ playback_count' = playback_count + 1
            /\ cplay_pc' = "idle"
            /\ UNCHANGED sine_started
       ELSE /\ sine_started' = TRUE
            /\ cplay_pc' = "started"
            /\ UNCHANGED playback_count
  /\ UNCHANGED <<terminate_capture, latency_test_mutex, ll_calls, ll_stdout,
                 cras_play_time, cras_cap_time, ccap_pc, ctest_pc>>

\* cras_play_tone: cras_client_calc_playback_latency;
\* cras_play_time = malloc(sizeof(*cras_play_time))
cras_play_tone_Malloc ==
  /\ cplay_pc = "started"
  /\ cras_play_time' = -1
  /\ cplay_pc' = "allocated"
  /\ UNCHANGED <<sine_started, terminate_capture, latency_test_mutex,
                 ll_calls, ll_stdout, playback_count, cras_cap_time,
                 ccap_pc, ctest_pc>>

\* cras_play_tone: gettimeofday(cras_play_time, NULL); playback_count++
cras_play_tone_Time ==
  /\ cplay_pc = "allocated"
  /\ ll_calls' = ll_calls + 1
  /\ cras_play_time' = ll_calls + 1
  /\ playback_count' = playback_count + 1
  /\ cplay_pc' = "idle"
  /\ UNCHANGED <<sine_started, terminate_capture, latency_test_mutex,
                 ll_stdout, cras_cap_time, ccap_pc, ctest_pc>>

\* cras_capture_tone is called: if (!sine_started || terminate_capture)
\* return frames; then check_for_noise on the samples
cras_capture_tone_Enter ==
  /\ ccap_pc = "idle"
  /\ ctest_pc # "stopped"
  /\ IF ~sine_started \/ terminate_capture
       THEN UNCHANGED ccap_pc
       ELSE \E noise \in BOOLEAN :
              ccap_pc' = IF noise THEN "noise" ELSE "idle"
  /\ UNCHANGED <<sine_started, terminate_capture, latency_test_mutex,
                 ll_calls, ll_stdout, playback_count, cras_play_time,
                 cras_cap_time, cplay_pc, ctest_pc>>

\* cras_capture_tone: cras_client_calc_capture_latency;
\* cras_cap_time = malloc(sizeof(*cras_cap_time))
cras_capture_tone_Malloc ==
  /\ ccap_pc = "noise"
  /\ cras_cap_time' = -1
  /\ ccap_pc' = "allocated"
  /\ UNCHANGED <<sine_started, terminate_capture, latency_test_mutex,
                 ll_calls, ll_stdout, playback_count, cras_play_time,
                 cplay_pc, ctest_pc>>

\* cras_capture_tone: gettimeofday(cras_cap_time, NULL)
cras_capture_tone_Time ==
  /\ ccap_pc = "allocated"
  /\ ll_calls' = ll_calls + 1
  /\ cras_cap_time' = ll_calls + 1
  /\ ccap_pc' = "stamped"
  /\ UNCHANGED <<sine_started, terminate_capture, latency_test_mutex,
                 ll_stdout, playback_count, cras_play_time, cplay_pc,
                 ctest_pc>>

\* cras_capture_tone: pthread_mutex_lock; terminate_capture = 1;
\* pthread_cond_signal(&terminate_test); pthread_mutex_unlock; return
cras_capture_tone_Terminate ==
  /\ ccap_pc = "stamped"
  /\ latency_test_mutex = "none"
  /\ terminate_capture' = TRUE
  /\ ctest_pc' = TestSignalled
  /\ ccap_pc' = "idle"
  /\ UNCHANGED <<sine_started, latency_test_mutex, ll_calls, ll_stdout,
                 playback_count, cras_play_time, cras_cap_time, cplay_pc>>

\* cras_test_latency: pthread_mutex_lock(&latency_test_mutex), first or
\* on return from pthread_cond_wait
cras_test_latency_Lock ==
  /\ ctest_pc \in {"start", "woken"}
  /\ latency_test_mutex = "none"
  /\ latency_test_mutex' = "test"
  /\ ctest_pc' = "check"
  /\ UNCHANGED <<sine_started, terminate_capture, ll_calls, ll_stdout,
                 playback_count, cras_play_time, cras_cap_time, cplay_pc,
                 ccap_pc>>

\* cras_test_latency: while (!terminate_capture)
\* pthread_cond_wait(&terminate_test, &latency_test_mutex);
\* pthread_mutex_unlock
cras_test_latency_Wait ==
  /\ ctest_pc = "check"
  /\ ctest_pc' = IF terminate_capture THEN "report" ELSE "waiting"
  /\ latency_test_mutex' = "none"
  /\ UNCHANGED <<sine_started, terminate_capture, ll_calls, ll_stdout,
                 playback_count, cras_play_time, cras_cap_time, cplay_pc,
                 ccap_pc>>

\* pthread_cond_wait(&terminate_test, ...) returns without a signal
cras_test_latency_Spurious ==
  /\ ctest_pc = "waiting"
  /\ ctest_pc' = "woken"
  /\ UNCHANGED <<sine_started, terminate_capture, latency_test_mutex,
                 ll_calls, ll_stdout, playback_count, cras_play_time,
                 cras_cap_time, cplay_pc, ccap_pc>>

\* cras_test_latency: if (cras_cap_time && cras_play_time) the latency
\* lines, else "Audio not detected."; cras_client_stop(client)
cras_test_latency_Report ==
  /\ ctest_pc = "report"
  /\ ll_stdout' = Append(ll_stdout,
                         IF cras_cap_time # 0 /\ cras_play_time # 0
                           THEN "Measured Latency" ELSE "Audio not detected.")
  /\ ctest_pc' = "stopped"
  /\ UNCHANGED <<sine_started, terminate_capture, latency_test_mutex,
                 ll_calls, playback_count, cras_play_time, cras_cap_time,
                 cplay_pc, ccap_pc>>

\* ------------- SpecCras: cras_test_latency and the two stream threads
\* the playback stream's thread, the capture stream's thread, the test
cras_play_tone ==
  \/ cras_play_tone_Enter
  \/ cras_play_tone_Started
  \/ cras_play_tone_Malloc
  \/ cras_play_tone_Time

cras_capture_tone ==
  \/ cras_capture_tone_Enter
  \/ cras_capture_tone_Malloc
  \/ cras_capture_tone_Time
  \/ cras_capture_tone_Terminate

cras_test_latency ==
  \/ cras_test_latency_Lock
  \/ cras_test_latency_Wait
  \/ cras_test_latency_Report

\* both streams added, cras_test_latency about to lock latency_test_mutex
InitCras ==
  /\ LatencyGlobals
  /\ aplay_pc = "none"
  /\ acap_pc = "none"
  /\ cplay_pc = "idle"
  /\ ccap_pc = "idle"
  /\ ctest_pc = "start"
  /\ CBIdle
  /\ LooptestIdle
  /\ LCIdle
  /\ GenIdle /\ IoIdle /\ MainIdle /\ CodecIdle /\ GfIdle /\ LpIdle
  /\ TgIdle /\ AsIdle

NextCras ==
  \/ cras_play_tone /\ UNCHANGED crasRest
  \/ cras_capture_tone /\ UNCHANGED crasRest
  \/ cras_test_latency /\ UNCHANGED crasRest
  \/ cras_test_latency_Spurious /\ UNCHANGED crasRest

SpecCras == InitCras /\ [][NextCras]_vars

\* playback callbacks keep arriving (one that waits for latency_test_mutex
\* gets it, however often cras_test_latency takes it in between) and
\* cras_test_latency, when it can run, does
SpecCrasFair ==
  /\ InitCras
  /\ [][NextCras]_vars
  /\ SF_vars(cras_play_tone /\ UNCHANGED crasRest)
  /\ WF_vars(cras_test_latency /\ UNCHANGED crasRest)

\* ------------- SpecDraw: LoopControl with fair threads, for LoopParams of
\* one and of two carriers; a redraw of new_target_carrier that leaves
\* the do/while where it is changes nothing, so fairness of the controller
\* thread makes rand() eventually produce each index it can produce
InitDraw ==
  /\ \E n \in NumFramesSet \ {80} : ThreadsCreated(n, "kReady", "kReady")
  /\ rpc = "seed"
  /\ LooptestIdle
  /\ AuxIdle

SpecDraw ==
  /\ InitDraw
  /\ [][NextLCLive]_vars
  /\ SF_vars(CaptureThread)
  /\ SF_vars(PlaybackThread)
  /\ SF_vars(ControllerThread)

\* ------------------- SpecTone: MultiToneGenerator(sample_rate, length_sec)
\* the largest and the smallest value of an int (frames_wanted_, fade_frames_)
INT_MAX == 2147483647
INT_MIN == -INT_MAX - 1
\* the sample rates and the tone lengths (atof of the -l option, as whole
\* seconds and thousandths) the generators are constructed with: lengths at,
\* just above and below 4 * kFadeTimeSec, and one of over thirteen hours
ToneRates == {200, 1000, 48000}
ToneSeconds == {0, 50000}
ToneMillis == {10, 20, 21, 25}
\* GetFrames is followed until this many frames have been generated
MaxToneFrames == 1100

\* length_sec * sample_rate does not fit an int
ProductOverflows(sample_rate, length) ==
  length.sec > (INT_MAX - (length.milli * sample_rate) \div 1000)
                 \div sample_rate

\* frames_wanted_(length_sec * sample_rate): the double product converted to
\* int.  In range the conversion truncates; length_sec is the double nearest
\* to the decimal, which may lie below it unless the decimal is a binary
\* fraction, so that a product that is a whole number may come out one less.
\* Out of range the conversion is undefined: cvttsd2si gives INT_MIN, a
\* saturating conversion INT_MAX.
FramesWanted(sample_rate, length) ==
  IF ProductOverflows(sample_rate, length)
    THEN {INT_MIN, INT_MAX}
    ELSE LET product == length.sec * sample_rate
                          + (length.milli * sample_rate) \div 1000
         IN  IF /\ (length.milli * sample_rate) % 1000 = 0
                /\ length.milli % 125 # 0
               THEN {product - 1, product}
               ELSE {product}

\* fade_frames_: kFadeTimeSec * sample_rate if length_sec > kFadeTimeSec * 4
\* (0.005 * 4 is the double 0.02), otherwise the 0 of the initializer
FadeFrames(sample_rate, length) ==
  IF length.sec > 0 \/ length.milli > 20 THEN (5 * sample_rate) \div 1000
                                           ELSE 0

\* MultiToneGenerator::MultiToneGenerator
MultiToneGenerator_Construct ==
  /\ tg_pc = "args"
  /\ \E wanted \in FramesWanted(tg_rate, tg_length) : frames_wanted_' = wanted
  /\ fade_frames_' = FadeFrames(tg_rate, tg_length)
  /\ frames_generated_' = 0
  /\ cur_vol_' = VolOne
  /\ start_vol_' = VolOne
  /\ inc_vol_' = 0
  /\ frequencies_' = << >>
  /\ param_mutex' = "none"
  /\ ppc' = "idle"
  /\ tg_pc' = "built"
  /\ UNCHANGED <<tg_rate, tg_length, tone_wave_, written, gpc, gcall>>

\* what the constructor leaves alone
toneRest == <<cbVars, ltVars, play_state, cap_state, completed, ctlVars,
              cap_after, play_after, ioVars, mainVars, codecVars, gfVars,
              lpVars, llVars, asVars>>

InitTone ==
  /\ tg_rate \in ToneRates
  /\ tg_length \in [sec : ToneSeconds, milli : ToneMillis]
  /\ tg_pc = "args"
  /\ CBIdle
  /\ LooptestIdle
  /\ LCIdle
  /\ GenIdle /\ IoIdle /\ MainIdle /\ CodecIdle /\ GfIdle /\ LpIdle
  /\ LlIdle /\ AsIdle

\* the generator is constructed, then PlayTones asks it for frames while
\* HasMoreFrames()
NextTone ==
  \/ MultiToneGenerator_Construct /\ UNCHANGED toneRest
  \/ /\ tg_pc = "built"
     /\ HasMoreFrames
     /\ frames_generated_ < MaxToneFrames
     /\ GetFrames_Lock
     /\ UNCHANGED genRest
  \/ /\ \E frames \in {1, 32} : GetFrames_Body(frames, 4)
     /\ UNCHANGED genRest

SpecTone == InitTone /\ [][NextTone]_vars

\* ---------------------- SpecScale: ASharpMinorGenerator (PlaybackRecord)
kNumNotes == 16
\* kNoteFrequencies, in hundredths of a hertz; element i of the array is
\* kNoteFrequencies[i + 1]
kNoteFrequencies ==
  <<46616, 52325, 55437, 62225, 69846, 73999, 88000, 93233,
    93233, 88000, 73999, 69846, 62225, 55437, 52325, 46616>>
\* what a read of kNoteFrequencies[i] gives: the element, or for an index
\* outside the array whatever the memory after it holds
NoteFrequency(i) ==
  IF i \in 0 .. kNumNotes - 1 THEN {kNoteFrequencies[i + 1]}
                               ELSE {0, 44000}
\* frames_wanted_ of the scale's SingleToneGenerator (tone_length_sec *
\* sample_rate) and the frames a GetFrames buffer holds
ScaleWantedSet == {1, 2, 3, 4}
ScaleChunkFrames == {1, 2}

\* SingleToneGenerator::HasMoreFrames
SingleToneGenerator_HasMoreFrames(gen) ==
  gen.frames_generated_ < gen.frames_wanted_

\* SingleToneGenerator::Reset
SingleToneGenerator_Reset(gen, frequency) ==
  [gen EXCEPT !.frequency_ = frequency, !.frames_generated_ = 0]

\* the frames SingleToneGenerator::GetFrames writes to a buffer of `frames`
\* frames: one per turn until the buffer is full or HasMoreFrames() is false
SingleToneGenerator_FramesWritten(gen, frames) ==
  IF gen.frames_wanted_ - gen.frames_generated_ < frames
    THEN IF gen.frames_wanted_ > gen.frames_generated_
           THEN gen.frames_wanted_ - gen.frames_generated_
           ELSE 0
    ELSE frames

\* ASharpMinorGenerator::HasMoreFrames
ASharpMinorGenerator_HasMoreFrames ==
  cur_note_ < kNumNotes \/ SingleToneGenerator_HasMoreFrames(tone_generator_)

\* ASharpMinorGenerator::GetFrames on a buffer of `frames` frames
ASharpMinorGenerator_GetFrames(frames) ==
  /\ as_pc = "ready"
  /\ IF ~ASharpMinorGenerator_HasMoreFrames
       THEN UNCHANGED <<tone_generator_, cur_note_, as_reads, as_frames>>
       ELSE \E frequency \in
                 IF SingleToneGenerator_HasMoreFrames(tone_generator_)
                   THEN {tone_generator_.frequency_}
                   ELSE NoteFrequency(cur_note_ + 1) :
              LET next == ~SingleToneGenerator_HasMoreFrames(tone_generator_)
                  gen == IF next
                           THEN SingleToneGenerator_Reset(tone_generator_,
                                                          frequency)
                           ELSE tone_generator_
                  frames_written ==
                    SingleToneGenerator_FramesWritten(gen, frames)
              IN  /\ cur_note_' = IF next THEN cur_note_ + 1 ELSE cur_note_
                  /\ as_reads' = IF next
                                   THEN Append(as_reads, cur_note_ + 1)
                                   ELSE as_reads
                  /\ tone_generator_' =
                       [gen EXCEPT !.frames_generated_ = @ + frames_written]
                  /\ as_frames' = as_frames + frames_written
  /\ UNCHANGED as_pc

\* ASharpMinorGenerator::Reset: the scale starts again
ASharpMinorGenerator_Reset ==
  /\ as_pc = "ready"
  /\ cur_note_' = 0
  /\ tone_generator_' =
       SingleToneGenerator_Reset(tone_generator_, kNoteFrequencies[1])
  /\ as_reads' = <<0>>
  /\ as_frames' = 0
  /\ UNCHANGED as_pc

\* what the scale generator leaves alone
scaleRest == <<cbVars, ltVars, lcVars, genVars, ioVars, mainVars, codecVars,
               gfVars, lpVars, llVars, tgVars>>

\* ASharpMinorGenerator(sample_rate, tone_length_sec): tone_generator_ is
\* constructed, cur_note_ = 0, tone_generator_.Reset(kNoteFrequencies[0])
InitScale ==
  /\ \E wanted \in ScaleWantedSet :
       tone_generator_ = [frames_generated_ |-> 0, frames_wanted_ |-> wanted,
                          fade_frames_ |-> 0,
                          frequency_ |-> kNoteFrequencies[1]]
  /\ cur_note_ = 0
  /\ as_pc = "ready"
  /\ as_reads = <<0>>
  /\ as_frames = 0
  /\ CBIdle
  /\ LooptestIdle
  /\ LCIdle
  /\ GenIdle /\ IoIdle /\ MainIdle /\ CodecIdle /\ GfIdle /\ LpIdle
  /\ LlIdle /\ TgIdle

NextScale ==
  \/ /\ \E frames \in ScaleChunkFrames : ASharpMinorGenerator_GetFrames(frames)
     /\ UNCHANGED scaleRest
  \/ ASharpMinorGenerator_Reset /\ UNCHANGED scaleRest

SpecScale == InitScale /\ [][NextScale]_vars

\* ===================================================== claims

WriterHolds == wpc \in {"holding", "filled", "advanced"}
ReaderHolds == rpc = "holding"
WriterWaiting == wpc = "locking" /\ mutexes[wcell] # "none"

\* C1: the reader receives the written cells in exactly the order they were
\* written, skipping none: the k-th cell returned by LockCellToRead carries
\* the k-th write.
C1_Fifo == \A i \in 1 .. Len(readLog) : readLog[i] = i

\* C2: the writer and the reader never hold the same cell at the same time.
C2_Exclusive == ~(WriterHolds /\ ReaderHolds /\ wcell = read_ptr_)
C2_Witness == WriterHolds /\ ReaderHolds /\ wcell # read_ptr_

\* C3: LockCellToRead returns only when read_ptr_ # write_ptr_, after the
\* first UnlockCellToWrite completed, with a cell written at least once.
C3_BlocksUntilWritten ==
  [][(rpc # "holding" /\ rpc' = "holding")
       => /\ read_ptr_ # write_ptr_
          /\ writesDone >= 1
          /\ cells[read_ptr_] >= 1]_vars
C3_Witness == rpc = "holding" /\ Len(readLog) = 1 /\ readLog[1] = 1

\* C4 (as stated): the writer never waits inside LockCellToWrite.
C4_NeverWaits == ~WriterWaiting
\* C4 (amended): the writer waits inside LockCellToWrite only while the
\* reader owns the mutex of the very cell at write_ptr_.
C4_WaitsOnlyForReader ==
  WriterWaiting => (mutexes[write_ptr_] = "reader" /\ read_ptr_ = write_ptr_
                    /\ rpc \in {"check", "holding"})
C4_Witness == WriterWaiting /\ rpc = "holding"

\* C5: the buffer cap_loop is capturing into is never the buffer play_loop
\* is playing at the same time.
C5_DisjointBuffers ==
  ~(cap_pc = "io" /\ play_pc = "io" /\ buf_cap = buf_play)

\* C6: when cap_loop finds write_available = 0 it goes on without waiting,
\* advances read_index, decrements read_available, and captures into the
\* buffer that was at read_index before the advance.
C6_DropsOldest ==
  [][(cap_pc = "top" /\ cap_pc' # "top" /\ ~terminate /\ write_available = 0)
       => /\ cap_pc' = "io"
          /\ read_index' = (read_index + 1) % buffer_count
          /\ read_available' = read_available - 1
          /\ buf_cap' = read_index]_ltVars

InLoopBody ==
  rpc \in {"call", "locking", "check", "waiting", "woken", "holding",
           "released", "analyse"}

\* C7: every detection attempt is decided on an analysis frame d with
\* 1 <= d <= 15: a success ("O") on the first frame at which the accumulated
\* confidence is >= 3.0, a failure ("X") on exactly frame 15 when it is still
\* below 3.0; before that the attempt goes on, and never past frame 15.
C7_DecidedByFrame15 ==
  [][(rpc = "analyse" /\ rpc' # "analyse")
       => /\ delay < TimeoutFrames
          /\ delay' = delay + 1
          /\ accum_confidence < ConfidenceThreshold
          /\ accum_confidence' >= accum_confidence
          /\ (accum_confidence' >= ConfidenceThreshold)
                <=> (rpc' = "record" /\ outcome' = "O")
          /\ (accum_confidence' < ConfidenceThreshold /\ delay' = TimeoutFrames)
                <=> (rpc' = "record" /\ outcome' = "X")
          /\ (accum_confidence' < ConfidenceThreshold /\ delay' < TimeoutFrames)
                <=> (rpc' = "loopcheck" /\ outcome' = outcome)]_vars
C7_Witness ==
  rpc = "record" /\ outcome = "X" /\ delay = TimeoutFrames
    /\ accum_confidence = 15

\* C8: after a recorded success or failure and before the next cell is
\* analysed, delay and accum_confidence are 0, the target carrier is a valid
\* index different from the previous target, and the generator was reset to
\* the single frequency center_bin * freq_resol of that carrier; the loop is
\* left only when the playback state is no longer kReady.
C8_NextAttempt ==
  [][/\ (rpc = "record" => rpc' \in {"record", "draw"})
     /\ (rpc = "draw" => rpc' \in {"draw", "loopcheck"})
     /\ (rpc = "draw" /\ rpc' = "loopcheck")
          => /\ delay' = 0
             /\ accum_confidence' = 0
             /\ target_carrier' \in 0 .. (NumCarriers(num_frames) - 1)
             /\ target_carrier' # target_carrier
             /\ frequencies_' = << center_bin(num_frames, target_carrier')
                                     * freq_resol(num_frames) >>
     /\ (rpc = "loopcheck" /\ rpc' = "setplay") => play_state # "kReady"]_vars
C8_Witness ==
  /\ InLoopBody /\ rpc = "holding" /\ outcome = "X" /\ delay = 0
  /\ accum_confidence = 0 /\ target_carrier = 2
  /\ frequencies_ = << center_bin(num_frames, 2) * freq_resol(num_frames) >>

\* C9: LoopControl returns only after both states were set to kTerminated
\* and both the playback and the capture thread have exited.
C9_ReturnsAfterJoin ==
  rpc = "returned"
    => /\ ppc = "exited" /\ wpc = "exited"
       /\ play_state = "kTerminated" /\ cap_state = "kTerminated"
C9_Witness == rpc = "returned" /\ outcome = "O"

\* C10: once the capture state is kTerminated, Capture begins at most one
\* more LockCellToWrite cycle; once the playback state is no longer kReady,
\* PlayTones asks the generator for at most one more chunk.
C10_AtMostOneMore == cap_after <= 1 /\ play_after <= 1
C10_Witness == cap_after = 1 /\ play_after = 1 /\ rpc = "returned"

\* C11: once terminate is set, cap_loop and play_loop both return, so that
\* both pthread_join calls of test() complete.
C11_BothReturn == terminate ~> (cap_pc = "done" /\ play_pc = "done")

\* C12: every read or write of the generator's mutable state by the
\* controller thread (Reset, SetVolumes) or by the playback thread
\* (GetFrames, HasMoreFrames) happens while that thread holds param_mutex.
C12_Guarded ==
  /\ (ppc \in {"hasmore", "gen_body"} => param_mutex = "play")
  /\ (gpc \in {"reset_body", "vol_body"} => param_mutex = "ctl")

\* C13: 0 <= frames_generated_ <= frames_wanted_ always; once they are equal
\* HasMoreFrames() is false, a GetFrames call writes no frame and returns 0,
\* and only a Reset with reset_timer = true, which sets frames_generated_
\* back to 0, changes frames_generated_.
C13_NeverPastWanted ==
  [][/\ 0 <= frames_generated_' /\ frames_generated_' <= frames_wanted_'
     /\ frames_generated_ = frames_wanted_
          => /\ ~HasMoreFrames
             /\ (ppc = "gen_body" /\ ppc' = "idle")
                  => (frames_generated_' = frames_generated_ /\ written' = 0)
             /\ frames_generated_' # frames_generated_
                  => /\ gpc = "reset_body" /\ gpc' = "idle"
                     /\ gcall.reset_timer
                     /\ frames_generated_' = 0]_vars
C13_Witness ==
  /\ frames_wanted_ = 5 /\ frames_generated_ = 5
  /\ written = 0 /\ ppc = "idle"

\* C14: a Reset call (any of the three overloads) with reset_timer = false
\* replaces frequencies_ and changes no other field; with reset_timer = true
\* it also sets frames_generated_ to 0 and cur_vol_ to start_vol_, and
\* changes nothing else.
C14_ResetFrame ==
  [][(gpc = "reset_body" /\ gpc' = "idle")
       => /\ Len(frequencies_') = gcall.ntones
          /\ \A i \in 1 .. gcall.ntones :
               frequencies_'[i] = gcall.frequencies[i]
          /\ UNCHANGED <<frames_wanted_, fade_frames_, start_vol_, inc_vol_,
                         tone_wave_>>
          /\ IF gcall.reset_timer
               THEN frames_generated_' = 0 /\ cur_vol_' = start_vol_
               ELSE UNCHANGED <<frames_generated_, cur_vol_>>]_vars
C14_Witness ==
  /\ gpc = "idle" /\ frequencies_ = <<880>> /\ tone_wave_ = 2
  /\ frames_generated_ = 3 /\ cur_vol_ # start_vol_

\* play_loop before it left its first wait loop
BeforeHalf == play_pc \in {"start", "half", "wait_half", "woken_half"}

\* C15: play_loop leaves its first wait only under buf_mutex and only when
\* read_available >= buffer_count / 2 or terminate is set; it calls pcm_io
\* only after that and, terminate being sticky and tested again before the
\* first buffer is taken, never after leaving on terminate alone; each
\* pcm_io plays the buffer that was at read_index when it was taken, with
\* read_index advanced by one modulo buffer_count and read_available
\* decremented by one.
C15_HalfThenPlay ==
  [][/\ (BeforeHalf /\ ~BeforeHalf')
          => /\ play_pc = "half" /\ play_pc' = "top" /\ buf_mutex = "play"
             /\ terminate \/ read_available >= buffer_count \div 2
     /\ terminate => terminate'
     /\ (play_pc = "top" /\ terminate) => play_pc' \in {"top", "done"}
     /\ (play_pc # "io" /\ play_pc' = "io")
          => /\ play_pc \in {"top", "inner"} /\ buf_mutex = "play"
             /\ buf_play' = read_index
             /\ read_index' = (read_index + 1) % buffer_count
             /\ read_available' = read_available - 1]_vars
C15_Witness ==
  /\ play_pc = "io" /\ buffer_count = 3 /\ buf_play = 1 /\ read_index = 2
  /\ ~terminate

\* C16: pcm_io returns (or exits the process on a failed snd_pcm_prepare)
\* after finitely many device calls whatever the device answers, and a
\* negative answer other than -EAGAIN and -EPIPE ends the I/O loop.
C16_Returns ==
  /\ <>(io_pc \in {"returned", "exited"})
  /\ [][(io_pc = "check" /\ io_pc' # "check" /\ io_completed < 0
          /\ io_completed \notin {-EAGAIN, -EPIPE})
            => io_pc' \in {"returned", "exited"}]_vars

\* C17: if the Init of the capture or of the playback client fails in
\* LoopControl, no thread is ever created and the process exits with a
\* non-zero status.
C17_InitFailureExitsNonZero ==
  /\ loop_ret \in {2, 3} => threads = 0
  /\ (mpc = "exited" /\ loop_ret \in {2, 3}) => exit_status # 0

\* the codec entry points that take a sample format
CodecEntryPoints ==
  {"bytes", "to_string", "WriteSampleForFormat", "SampleCellToDoubleCell",
   "SampleFormatToFrameBytes"}

\* C18: every codec entry point that receives kPcmInvalid ends in abort,
\* never with a value or a normal return.
C18_InvalidAborts ==
  (cpc \in CodecEntryPoints /\ format_ = "kPcmInvalid")
    => ret.kind = "abort"

\* C19: for every supported format and channel count the frame stride of
\* the clients, SampleFormatToFrameBytes(f, c), equals c * f.bytes(), so
\* that GetFrames puts at most num_frames_ frames into a playback chunk.
C19_SameStride ==
  /\ (cpc = "SampleFormatToFrameBytes" /\ format_ \in Formats)
       => ret.value = num_channels_ * FormatBytes(format_)
  /\ cpc = "PlayTones"
       => /\ frame_bytes_ = num_channels_ * FormatBytes(format_)
          /\ chunk_frames <= cell_frames

\* the sum of the decoded magnitudes of the samples of frame n (from 0),
\* as a numerator over SampleMax
RECURSIVE FrameSum(_, _, _, _, _)
FrameSum(f, cell, n, channels, c) ==
  IF c = 0 THEN 0
  ELSE DecodeNum(f, cell[n * channels + c])
         + FrameSum(f, cell, n, channels, c - 1)

\* C20: SampleCellToDoubleCell sets double_cell[n] to the arithmetic mean
\* of the decoded magnitudes of the samples n*C .. n*C + C - 1 of the cell.
C20_MeanOfFrame ==
  (cpc = "SampleCellToDoubleCell" /\ format_ \in Formats)
    => /\ Len(double_cell) = cell_frames
       /\ \A n \in 0 .. (cell_frames - 1) :
            double_cell[n + 1][1] * num_channels_
              = FrameSum(format_, sample_cell, n, num_channels_,
                         num_channels_) * double_cell[n + 1][2]

\* (m2 / 2) * max rounded down, and the half that rounding dropped
HalfFloor(m2, max) == (m2 \div 2) * max + (m2 % 2) * (max \div 2)
HalfRest(m2, max) == (m2 % 2) * (max % 2)
\* one quantization step of a format, in units of 1 / SampleMax
StepNum(f) == IF f = "kPcmU8" THEN 2 ELSE 1
Abs(x) == IF x < 0 THEN 0 - x ELSE x

\* C21: for each supported format and each magnitude m of [-1, 1], the value
\* SampleCellToDoubleCell decodes (one channel) from the sample that
\* WriteSampleForFormat wrote for m is within one quantization step of m.
C21_RoundTrip ==
  cpc = "RoundTrip"
    => Abs(2 * (double_cell[1][1] - HalfFloor(magnitude, SampleMax(format_)))
             - HalfRest(magnitude, SampleMax(format_)))
         <= 2 * StepNum(format_)

\* the fade multiplier the tone is to have at frame g, as the k and F of
\* sin(kHalfPi * k / F): the rise, the plateau, the mirrored fall
ExpectedFade(g) ==
  IF g < fade_frames_ THEN <<g, fade_frames_>>
  ELSE IF g <= frames_wanted_ - fade_frames_ THEN <<1, 1>>
  ELSE <<frames_wanted_ - 1 - g, fade_frames_>>

\* C22: for a tone of L frames with fade window F (0 < F < L/4) the fade
\* multiplier of frame g is 0 at g = 0, rises to 1.0 at g = F, is 1.0 for
\* F <= g <= L - F, then falls so that frame L-1-k has the multiplier of
\* frame k (k < F), reaching 0 at frame L - 1.
C22_FadeSymmetric ==
  (0 < fade_frames_ /\ 4 * fade_frames_ < frames_wanted_)
    => \A i \in 1 .. Len(gf_log) :
         /\ gf_log[i].fade[1] * ExpectedFade(gf_log[i].g)[2]
              = ExpectedFade(gf_log[i].g)[1] * gf_log[i].fade[2]
         /\ gf_log[i].g = frames_wanted_ - 1 => gf_log[i].fade[1] = 0

\* C25: every GetFrames call returns a multiple of channels *
\* format.bytes() that is at most buf_size and equals
\* min(buf_size / frame_bytes, frames_wanted_ - frames_generated_ at
\* entry) * frame_bytes, and frames_generated_ grew by the frames written.
C25_WholeFrames ==
  [][(ppc = "frame_loop" /\ ppc' = "idle")
       => /\ written' % kBytesPerFrame = 0
          /\ written' <= gf_buf_size
          /\ written'
               = Min(gf_buf_size \div kBytesPerFrame,
                     frames_wanted_ - gf_entry) * kBytesPerFrame
          /\ frames_generated_'
               = gf_entry + written' \div kBytesPerFrame]_vars
\* the tone ended in the middle of a buffer
C25_Witness ==
  /\ ppc = "idle"
  /\ written > 0
  /\ written + kBytesPerFrame <= gf_buf_size
  /\ frames_generated_ = frames_wanted_
  /\ gf_entry > 0

\* C26: every frame GetFrames writes holds `channels` samples in channel
\* order, silence (the encoding of 0.0) on each channel that is not active
\* and the encoding of the one frame magnitude on each active channel, so
\* that frame k starts at byte k * channels * format.bytes().
C26_FrameLayout ==
  /\ Len(gf_data) = Len(gf_log) * gf_channels
  /\ \A k \in 0 .. (Len(gf_log) - 1) :
       /\ gf_log[k + 1].at = k * gf_channels * FormatBytes(gf_format)
       /\ \A c \in 0 .. (gf_channels - 1) :
            LET stored == gf_data[k * gf_channels + c + 1]
            IN  /\ stored.c = c
                /\ stored.at = gf_log[k + 1].at + c * FormatBytes(gf_format)
                /\ stored.sample
                     = StoredSample(gf_format,
                                    IF c \in gf_active
                                      THEN gf_log[k + 1].frame_magnitude
                                      ELSE 0)
\* two frames of two channels of which only channel 1 is active
C26_Witness ==
  /\ gf_format = "kPcmU8"
  /\ gf_channels = 2
  /\ gf_active = {1}
  /\ Len(gf_log) = 2
  /\ gf_log[2].frame_magnitude = 2
  /\ gf_data[3].sample = 127
  /\ gf_data[4].sample = 255

\* C23: after EstimateFilter the analysis windows [lo_bin, hi_bin] of any
\* two distinct carriers are disjoint.
C23_DisjointWindows ==
  lp_pc = "estimated"
    => \A i, j \in 1 .. Len(parm.carriers) :
         i # j => \/ parm.carriers[i].hi_bin < parm.carriers[j].lo_bin
                  \/ parm.carriers[j].hi_bin < parm.carriers[i].lo_bin

\* C24: for every positive sample rate and cell size the LoopParam
\* constructor yields num_used_bin = bin_end - bin_start >= 0,
\* floor(num_used_bin / 2) carriers whose center bins are 2 apart and lie
\* in [bin_start, bin_end) with bin_end <= num_bin; after EstimateFilter
\* 0 <= lo_bin <= center_bin <= hi_bin <= num_bin - 1 for each carrier.
C24_CarrierLayout ==
  lp_pc # "input"
    => /\ lp_pc # "terminated"
       /\ parm.num_used_bin = parm.bin_end - parm.bin_start
       /\ parm.num_used_bin >= 0
       /\ Len(parm.carriers) = parm.num_used_bin \div 2
       /\ parm.bin_end <= parm.num_bin
       /\ \A i \in 1 .. Len(parm.carriers) :
            /\ parm.bin_start <= parm.carriers[i].center_bin
            /\ parm.carriers[i].center_bin < parm.bin_end
            /\ i > 1 => parm.carriers[i].center_bin
                          = parm.carriers[i - 1].center_bin + 2
            /\ lp_pc = "estimated"
                 => /\ 0 <= parm.carriers[i].lo_bin
                    /\ parm.carriers[i].lo_bin <= parm.carriers[i].center_bin
                    /\ parm.carriers[i].center_bin <= parm.carriers[i].hi_bin
                    /\ parm.carriers[i].hi_bin <= parm.num_bin - 1

\* C27: with one writer and one reader the cells that successive
\* LockCellToRead calls return carry strictly increasing write sequence
\* numbers, and the reads never outnumber the completed writes.
C27_ReadsIncrease ==
  /\ \A i \in 1 .. Len(readLog) :
       /\ readLog[i] >= 1
       /\ i > 1 => readLog[i - 1] < readLog[i]
  /\ Len(readLog) <= writesDone
\* three reads, the second of which skipped a write
C27_Witness ==
  /\ Len(readLog) = 3
  /\ readLog[2] > readLog[1] + 1
  /\ rpc = "holding"

\* C30: the writer is delayed inside LockCellToWrite only while the reader
\* owns the mutex of the very cell at write_ptr_; a reader holding another
\* cell never delays it, and (N >= 2) the reader can hold cell k while the
\* writer holds cell (k + 1) mod N.
C30_PerCellLocks ==
  /\ (wpc = "locking" /\ mutexes[wcell] # "none")
       => /\ wcell = write_ptr_
          /\ wcell = read_ptr_
          /\ mutexes[wcell] = "reader"
  /\ (ReaderHolds /\ wpc = "locking" /\ wcell # read_ptr_)
       => ENABLED LockCellToWrite_Acquire
C30_Witness ==
  /\ buffer_count_ >= 2
  /\ ReaderHolds
  /\ wpc = "filled"
  /\ wcell = (read_ptr_ + 1) % buffer_count_

\* C28: under weak fairness of the writer and the reader thread, with a
\* writer that keeps completing LockCellToWrite / UnlockCellToWrite cycles
\* and N >= 2 cells, a reader waiting in LockCellToRead eventually returns
\* from it.
C28_ReaderReturns == (rpc = "waiting") ~> (rpc = "holding")

\* C29: once the playback thread has stopped (tone over, or
\* snd_pcm_prepare / snd_pcm_writei failed) or the capture thread has
\* stopped on an I/O error, LoopControl leaves its analysis loop, sets both
\* states to kTerminated, completes both joins and returns.
C29_LoopControlReturns ==
  (ppc = "exited" \/ (wpc = "exited" /\ completed < 0))
    ~> (rpc = "returned")

\* C31: in Capture a cell is published (write_ptr_ advanced, has_data
\* signalled) only after the snd_pcm_readi into it succeeded: on a negative
\* result the loop exits without publishing that cell.
C31_PublishOnlyRead ==
  [][(wpc = "filled" /\ write_ptr_' # write_ptr_) => completed >= 0]_vars

\* C32: for every LoopParam with at least one carrier, the do/while of
\* LoopControl that draws the next target carrier terminates under a fair
\* pseudo-random source.
C32_DrawTerminates == (rpc = "draw") ~> (rpc # "draw")

\* the number of buffers taken by a loop for a pcm_io call and not yet
\* given back (read_available++ or write_available++)
InPcmIo ==
  (IF cap_pc \in {"io", "relock"} THEN 1 ELSE 0)
    + (IF play_pc \in {"io", "relock"} THEN 1 ELSE 0)

C34_CaptureAfterSine ==
  /\ [](/\ acap_pc \in {"pcm_start", "loop", "capture", "done"}
             => sine_started
        /\ sine_started
             => sine_start_tv > 0 /\ aplay_pc \notin {"silent", "sine"}
        /\ cap_time > 0 => cap_time > sine_start_tv /\ sine_start_tv > 0)
  /\ [][(aplay_pc = "silent" /\ aplay_pc' \notin {"silent", "exited"})
          => /\ aplay_pc' = "sine"
             /\ num_buffers' = PLAYBACK_SILENT_COUNT]_vars
C34_Witness ==
  /\ cap_time = 2 /\ sine_start_tv = 1 /\ acap_pc = "loop"
  /\ aplay_pc = "loop" /\ num_buffers = 1

\* C35: after the playback thread has terminated without audio having been
\* detected, alsa_capture runs CAPTURE_MORE_COUNT further loop iterations
\* and only then sets terminate_capture.
C35_CaptureMore ==
  [][(~terminate_capture /\ terminate_capture' /\ cap_time' = 0)
       => capture_count >= CAPTURE_MORE_COUNT]_vars

\* C36: every run of alsa_test_latency in which both threads finish reports
\* exactly one outcome, a measured latency or "Audio not detected", never
\* both and never neither.
C36_OneOutcome ==
  (aplay_pc = "done" /\ acap_pc = "done") => Len(ll_stdout) = 1

\* C37: cras_test_latency always leaves its wait on terminate_test as long
\* as playback callbacks keep arriving: terminate_capture is set when noise
\* is captured after the sine has started or when cras_play_tone is called
\* with playback_count > PLAYBACK_TIMEOUT_COUNT, so at the latest by the
\* 102nd playback callback.
C37_WaitEnds ==
  /\ <>(ctest_pc \in {"report", "stopped"})
  /\ [](playback_count >= PLAYBACK_TIMEOUT_COUNT + 2 => terminate_capture)
  /\ [][(~terminate_capture /\ terminate_capture')
          => \/ ccap_pc = "stamped" /\ sine_started
             \/ cplay_pc = "idle" /\ playback_count > PLAYBACK_TIMEOUT_COUNT
       ]_vars
C37_Witness ==
  /\ ctest_pc = "stopped" /\ playback_count = PLAYBACK_TIMEOUT_COUNT + 2
  /\ cras_cap_time = 0

\* C38: in the CRAS path the first PLAYBACK_SILENT_COUNT playback callbacks
\* write only zeros; sine_started is set and cras_play_time recorded exactly
\* once, at the first callback that writes the sine; cras_cap_time is
\* recorded at most once and only after sine_started is set; a measured
\* latency is reported only when both times were recorded, otherwise
\* "Audio not detected" is reported.
C38_CrasTimes ==
  [][/\ (cplay_pc # "sine" /\ cplay_pc' = "sine")
          => playback_count >= PLAYBACK_SILENT_COUNT
     /\ (sine_started' # sine_started \/ cras_play_time' # cras_play_time)
          => /\ playback_count = PLAYBACK_SILENT_COUNT
             /\ cras_play_time <= 0
             /\ sine_started'
     /\ (cras_cap_time' # cras_cap_time)
          => sine_started /\ cras_cap_time <= 0
     /\ (ctest_pc = "report" /\ ctest_pc' = "stopped")
          => ll_stdout' =
               << IF cras_cap_time > 0 /\ cras_play_time > 0
                    THEN "Measured Latency" ELSE "Audio not detected." >>
    ]_vars

\* C39: once a MultiToneGenerator is constructed from a sample rate and a
\* tone length of at least 0.01 s, fade_frames_ is 0 or 4 * fade_frames_ <=
\* frames_wanted_, and no frames_generated_ lies both in the fade-in region
\* (frames_generated_ < fade_frames_) and in the fade-out region
\* (frames_wanted_ - frames_generated_ < fade_frames_)
C39_FadeWithinTone ==
  tg_pc = "built" =>
    /\ fade_frames_ = 0 \/ 4 * fade_frames_ <= frames_wanted_
    /\ ~ /\ frames_generated_ < fade_frames_
         /\ frames_wanted_ - frames_generated_ < fade_frames_

\* C40: the scale generator plays exactly kNumNotes notes: cur_note_ stays
\* within 0 .. kNumNotes - 1, every index kNoteFrequencies is read at lies
\* within the array, no more than kNumNotes tones' worth of frames is handed
\* out, and HasMoreFrames() is false once the last frame of the 16th note
\* has been generated
C40_SixteenNotes ==
  as_pc = "ready" =>
    /\ cur_note_ \in 0 .. kNumNotes - 1
    /\ \A i \in 1 .. Len(as_reads) : as_reads[i] \in 0 .. kNumNotes - 1
    /\ as_frames <= kNumNotes * tone_generator_.frames_wanted_
    /\ (/\ cur_note_ = kNumNotes - 1
        /\ ~SingleToneGenerator_HasMoreFrames(tone_generator_))
         => ~ASharpMinorGenerator_HasMoreFrames


====
